---- MODULE Spec2Model ----
(***************************************************************************)
(* A model of the AI social media manager backend:                         *)
(*   - ContentGenerator.create_weekly_schedule (content_generator.py),     *)
(*   - ContentGenerator.generate_posts and its helpers,                    *)
(*   - BusinessAnalyzer.analyze_website and its classifiers               *)
(*     (business_analyzer.py),                                             *)
(*   - the Flask handlers of app.py over the JSON storage of               *)
(*     data_storage.py.                                                    *)
(* The specifications share the variables: SpecSched applies the           *)
(* scheduler to bounded inputs, SpecGen and SpecTags apply the generator,  *)
(* SpecSite applies the website analyzer, SpecHelp the generator's         *)
(* engagement and posting-time helpers, and Spec is the request-by-request *)
(* state machine of the HTTP application.  SpecFrame runs the scheduler    *)
(* on named objects, SpecReal is Spec with the Facebook client in real     *)
(* mode, SpecRace runs request handlers in threads over the unlocked       *)
(* storage file, and SpecCleanup applies DataStorage.cleanup_old_data.     *)
(***************************************************************************)
EXTENDS Integers, Sequences, FiniteSets, TLC

VARIABLES
    sched_in,     \* arguments of the create_weekly_schedule call under study
    sched_out,    \* its outcome: NoResult before the call
    gen_in,       \* arguments of the generate_posts call under study
    gen_out,      \* its outcome: NoResult before the call
    tags_in,      \* the post whose hashtags are being generated
    tags_out,     \* the hashtag list _generate_hashtags returned for it
    posts,        \* data/posts.json: the stored posts, the k-th stored has id k
    schedules,    \* data/schedules.json, as the number of stored schedules
                  \* (for cleanup_old_data: as their created_at stamps)
    clock,        \* datetime.now(), as the number of timestamps taken so far
    mock_mode,    \* FacebookIntegration.mock_mode
    response,     \* the HTTP response of the last request handled
    site_in,      \* the website handed to BusinessAnalyzer: url, page or failure
    site_out,     \* what the analyzer returned for it
    help_in,      \* arguments of the generator helper call under study
    help_out,     \* what the helper returned
    heap,         \* the list and dict objects a scheduler call can reach, by name
    threads       \* the request threads of the server: position and locals

vars == <<sched_in, sched_out, gen_in, gen_out, tags_in, tags_out,
          posts, schedules, clock, mock_mode, response,
          site_in, site_out, help_in, help_out, heap, threads>>

schedVars == <<sched_in, sched_out>>
genVars == <<gen_in, gen_out>>
tagVars == <<tags_in, tags_out>>
appVars == <<posts, schedules, clock, mock_mode, response>>
siteVars == <<site_in, site_out>>
helpVars == <<help_in, help_out>>
frameVars == <<heap>>
raceVars == <<threads>>

\* Python's None where a string may stand, where a post dict may stand and
\* where a date string may stand.
None == "None"
NoPost == [none |-> TRUE]
NoDate == <<>>

\* "Not called yet", for the outcome variables.
NoResult == [kind |-> "none"]

Range(s) == {s[i] : i \in DOMAIN s}

Min(a, b) == IF a <= b THEN a ELSE b

Max(a, b) == IF a >= b THEN a ELSE b

\* Python's s[:n], for n of either sign.
PySlice(s, n) ==
    IF n >= 0 THEN SubSeq(s, 1, Min(n, Len(s)))
    ELSE SubSeq(s, 1, Max(Len(s) + n, 0))

\* Python's list.index(x), 1-based here; x must occur in s.
IndexOf(s, x) == CHOOSE i \in DOMAIN s : s[i] = x /\ \A j \in 1..(i - 1) : s[j] # x

\* All sequences over S of length at most n.
SeqsUpTo(S, n) == UNION {[1..k -> S] : k \in 0..n}

(***************************************************************************)
(* Calendar dates.  A date string 'YYYY-MM-DD' is the triple <<y, m, d>>;  *)
(* datetime.strptime, timedelta and strftime work through the proleptic    *)
(* Gregorian ordinal, as CPython's datetime does.                          *)
(***************************************************************************)
IsLeap(y) == (y % 4 = 0) /\ ((y % 100 # 0) \/ (y % 400 = 0))

DaysInMonth(y, m) ==
    IF m = 2 THEN (IF IsLeap(y) THEN 29 ELSE 28)
    ELSE IF m \in {4, 6, 9, 11} THEN 30 ELSE 31

RECURSIVE DaysBeforeMonth(_, _)
DaysBeforeMonth(y, m) ==
    IF m = 1 THEN 0 ELSE DaysBeforeMonth(y, m - 1) + DaysInMonth(y, m - 1)

DaysBeforeYear(y) ==
    (y - 1) * 365 + ((y - 1) \div 4) - ((y - 1) \div 100) + ((y - 1) \div 400)

DaysInYear(y) == IF IsLeap(y) THEN 366 ELSE 365

\* The years the model's dates fall in.
Years == 2023..2027

\* strptime(s, '%Y-%m-%d') succeeds exactly on a real calendar date.
IsValidDate(s) ==
    /\ s[1] \in Years
    /\ s[2] \in 1..12
    /\ s[3] \in 1..DaysInMonth(s[1], s[2])

\* datetime.strptime(...).toordinal()
ToOrdinal(s) == DaysBeforeYear(s[1]) + DaysBeforeMonth(s[1], s[2]) + s[3]

\* datetime.fromordinal(n).strftime('%Y-%m-%d')
FromOrdinal(n) ==
    LET y == CHOOSE yy \in Years :
                 DaysBeforeYear(yy) < n /\ n <= DaysBeforeYear(yy) + DaysInYear(yy)
        r == n - DaysBeforeYear(y)
        m == CHOOSE mm \in 1..12 :
                 DaysBeforeMonth(y, mm) < r
                 /\ r <= DaysBeforeMonth(y, mm) + DaysInMonth(y, mm)
    IN <<y, m, r - DaysBeforeMonth(y, m)>>

(***************************************************************************)
(* ContentGenerator.create_weekly_schedule                                 *)
(***************************************************************************)
\* self.days
Days == <<"monday", "tuesday", "wednesday", "thursday", "friday", "saturday", "sunday">>

\* Default days whose first list stops below frequency 3.
DefaultDaysBelowThree(frequency) ==
    IF frequency < 3 THEN <<"monday", "wednesday", "friday">>
    ELSE IF frequency <= 5 THEN <<"monday", "tuesday", "thursday", "friday", "saturday">>
    ELSE <<"monday", "tuesday", "wednesday", "thursday", "friday", "saturday", "sunday">>

\* Default posting days if none specified.
DefaultDays(frequency) ==
    IF frequency <= 3 THEN <<"monday", "wednesday", "friday">>
    ELSE IF frequency <= 5 THEN <<"monday", "tuesday", "thursday", "friday", "saturday">>
    ELSE Days

\* Posting days topped up from self.days whether or not a day is already
\* among them.
PostingDaysRepeating(preferred_days, frequency) ==
    LET preferred == IF preferred_days = <<>> THEN DefaultDays(frequency)
                     ELSE preferred_days
        first == PySlice(preferred, frequency)
    IN IF Len(first) < frequency
       THEN first \o PySlice(Days, frequency - Len(first))
       ELSE first

\* posting_days: the first `frequency` preferred days, topped up from self.days.
PostingDays(preferred_days, frequency) ==
    LET preferred == IF preferred_days = <<>> THEN DefaultDays(frequency)
                     ELSE preferred_days
        first == PySlice(preferred, frequency)
        remaining_days == SelectSeq(Days, LAMBDA day : day \notin Range(first))
    IN IF Len(first) < frequency
       THEN first \o PySlice(remaining_days, frequency - Len(first))
       ELSE first

\* datetime.weekday() of an ordinal: Monday is 0.
Weekday(n) == (n + 6) % 7

\* A scheduler that puts each day name on the date of that weekday.
SlotDateAligned(start, i) == FromOrdinal(start + (((i - 1) - Weekday(start)) % 7))

\* day_date.strftime('%Y-%m-%d') for the i-th day of self.days (i from 1);
\* `start` is the ordinal of the week's first date.
SlotDate(start, i) == FromOrdinal(start + (i - 1))

\* post.get('best_time_to_post', '12:00 PM')
SuggestedTime(post) ==
    IF "best_time_to_post" \in DOMAIN post THEN post.best_time_to_post ELSE "12:00 PM"

\* day.title()
Title(day) ==
    CASE day = "monday" -> "Monday"
      [] day = "tuesday" -> "Tuesday"
      [] day = "wednesday" -> "Wednesday"
      [] day = "thursday" -> "Thursday"
      [] day = "friday" -> "Friday"
      [] day = "saturday" -> "Saturday"
      [] day = "sunday" -> "Sunday"

\* A fill condition that compares the 1-based position with "<".
SlotFilledOffByOne(day, posting_days, post_list) ==
    day \in Range(posting_days) /\ IndexOf(posting_days, day) < Len(post_list)

\* The condition under which the loop fills the slot of `day`.
SlotFilled(day, posting_days, post_list) ==
    day \in Range(posting_days) /\ IndexOf(posting_days, day) <= Len(post_list)

\* One iteration of `for i, day in enumerate(self.days)`.
Slot(i, posting_days, post_list, start) ==
    LET day == Days[i] IN
    IF SlotFilled(day, posting_days, post_list)
    THEN LET post == post_list[IndexOf(posting_days, day)] IN
         [date |-> SlotDate(start, i), post |-> post,
          suggested_time |-> SuggestedTime(post), day_of_week |-> Title(day)]
    ELSE [date |-> SlotDate(start, i), post |-> NoPost,
          suggested_time |-> None, day_of_week |-> Title(day)]

\* The schedule dict: day name -> slot, keys in the order of self.days.
BuildSchedule(post_list, frequency, preferred_days, start) ==
    LET posting_days == PostingDays(preferred_days, frequency) IN
    [day \in Range(Days) |-> Slot(IndexOf(Days, day), posting_days, post_list, start)]

\* A scheduler that rejects a frequency above the number of posts.
CreateWeeklyScheduleValidating(post_list, frequency, preferred_days, start_date, today) ==
    IF start_date # NoDate /\ ~IsValidDate(start_date)
    THEN [kind |-> "ValueError"]
    ELSE IF frequency > Len(post_list)
    THEN [kind |-> "ValidationError"]
    ELSE LET start == IF start_date # NoDate THEN ToOrdinal(start_date)
                      ELSE ToOrdinal(today)
         IN [kind |-> "returned", start |-> start,
             schedule |-> BuildSchedule(post_list, frequency, preferred_days, start)]

\* The whole call.  `today` stands for datetime.now() when start_date is None.
\* A start_date that is no calendar date makes strptime raise ValueError (the
\* model's calendar is the years of Years).
CreateWeeklySchedule(post_list, frequency, preferred_days, start_date, today) ==
    IF start_date # NoDate /\ ~IsValidDate(start_date)
    THEN [kind |-> "ValueError"]
    ELSE LET start == IF start_date # NoDate THEN ToOrdinal(start_date)
                      ELSE ToOrdinal(today)
         IN [kind |-> "returned", start |-> start,
             schedule |-> BuildSchedule(post_list, frequency, preferred_days, start)]

(***************************************************************************)
(* ContentGenerator: templates, content pools, hashtags, posting times.    *)
(***************************************************************************)
\* The keys of self.post_templates and of each of its values.
TemplateTypes == {"promo", "tip", "update", "insight"}

TemplateTones == {"professional", "friendly", "casual", "premium"}

\* self.post_templates[post_type][tone] raises KeyError on any other key.
HasTemplates(post_type, tone) == post_type \in TemplateTypes /\ tone \in TemplateTones

\* The slots each of the three templates of (post_type, tone) references.
TemplateSlots(post_type, tone) ==
    CASE post_type = "promo" /\ tone = "professional" ->
        <<{"business_name", "call_to_action", "contact_info", "offer", "value_prop"},
          {"business_name", "call_to_action", "offer"},
          {"business_name", "call_to_action", "offer", "value_prop"}>>
    [] post_type = "promo" /\ tone = "friendly" ->
        <<{"business_name", "call_to_action", "offer", "value_prop"},
          {"business_name", "call_to_action", "offer"},
          {"business_name", "call_to_action", "offer", "value_prop"}>>
    [] post_type = "promo" /\ tone = "casual" ->
        <<{"business_name", "call_to_action", "offer"},
          {"call_to_action", "offer"},
          {"call_to_action", "offer"}>>
    [] post_type = "promo" /\ tone = "premium" ->
        <<{"business_name", "call_to_action", "offer", "value_prop"},
          {"business_name", "call_to_action", "offer"},
          {"business_name", "offer", "value_prop"}>>
    [] post_type = "tip" /\ tone = "professional" ->
        <<{"benefit", "business_name", "call_to_action", "tip_content"},
          {"business_name", "call_to_action", "tip_content", "value_prop"},
          {"business_name", "industry", "tip_content"}>>
    [] post_type = "tip" /\ tone = "friendly" ->
        <<{"benefit", "business_name", "call_to_action", "tip_content"},
          {"business_name", "call_to_action", "tip_content"},
          {"business_name", "tip_content"}>>
    [] post_type = "tip" /\ tone = "casual" ->
        <<{"business_name", "call_to_action", "tip_content"},
          {"business_name", "tip_content"},
          {"business_name", "call_to_action", "tip_content"}>>
    [] post_type = "tip" /\ tone = "premium" ->
        <<{"business_name", "call_to_action", "tip_content"},
          {"business_name", "industry", "tip_content"},
          {"business_name", "tip_content"}>>
    [] post_type = "update" /\ tone = "professional" ->
        <<{"business_name", "call_to_action", "update_content", "value_prop"},
          {"business_name", "call_to_action", "update_content"},
          {"business_name", "update_content"}>>
    [] post_type = "update" /\ tone = "friendly" ->
        <<{"business_name", "call_to_action", "update_content"},
          {"business_name", "call_to_action", "update_content"},
          {"business_name", "update_content"}>>
    [] post_type = "update" /\ tone = "casual" ->
        <<{"business_name", "update_content"},
          {"call_to_action", "update_content"},
          {"business_name", "update_content"}>>
    [] post_type = "update" /\ tone = "premium" ->
        <<{"business_name", "update_content"},
          {"business_name", "update_content"},
          {"business_name", "update_content"}>>
    [] post_type = "insight" /\ tone = "professional" ->
        <<{"business_name", "call_to_action", "insight_content"},
          {"business_name", "call_to_action", "insight_content"},
          {"business_name", "insight_content"}>>
    [] post_type = "insight" /\ tone = "friendly" ->
        <<{"business_name", "call_to_action", "insight_content"},
          {"business_name", "call_to_action", "insight_content"},
          {"business_name", "insight_content"}>>
    [] post_type = "insight" /\ tone = "casual" ->
        <<{"business_name", "call_to_action", "insight_content"},
          {"business_name", "insight_content"},
          {"business_name", "insight_content"}>>
    [] post_type = "insight" /\ tone = "premium" ->
        <<{"business_name", "insight_content"},
          {"business_name", "insight_content"},
          {"business_name", "insight_content"}>>

\* The keys of self.industry_content.
ContentIndustries == {"fitness", "beauty", "food", "general"}

\* self.industry_content.get(industry, self.industry_content['general']),
\* as the key of the pool used.
IndustryData(industry) == IF industry \in ContentIndustries THEN industry ELSE "general"

\* industry_data['hashtags']
IndustryHashtags(pool) ==
    CASE pool = "fitness" ->
           <<"#fitness", "#gym", "#workout", "#health", "#motivation",
             "#personaltraining", "#fitnesscommunity">>
      [] pool = "beauty" ->
           <<"#beauty", "#spa", "#skincare", "#salon", "#selfcare", "#beautytips", "#glowup">>
      [] pool = "food" ->
           <<"#restaurant", "#food", "#dining", "#localfood", "#freshingredients",
             "#foodie", "#delicious">>
      [] pool = "general" ->
           <<"#business", "#service", "#quality", "#community", "#local", "#customerservice">>

\* type_hashtags.get(post_type, [])
TypeHashtags(post_type) ==
    CASE post_type = "promo" -> <<"#deal", "#offer", "#special", "#save">>
      [] post_type = "tip" -> <<"#tips", "#advice", "#howto", "#expert">>
      [] post_type = "update" -> <<"#news", "#update", "#announcement">>
      [] post_type = "insight" -> <<"#trends", "#insights", "#industry", "#knowledge">>
      [] OTHER -> <<>>

\* The general business hashtags appended to every list.
GeneralHashtags == <<"#local", "#smallbusiness", "#community">>

\* The two hashtags _generate_insight_post adds to the industry's list.
InsightExtraHashtags == <<"#industrytrends", "#businessinsights">>

\* A sample size that takes the whole list.
SampleSizeWholeList(n) == n

\* min(8, len(hashtags))
SampleSize(n) == Min(8, n)

\* The elements of s at the positions of S, in the order of s.
AtPositions(s, S) ==
    LET pick[i \in 0..Len(s)] ==
            IF i = 0 THEN <<>>
            ELSE IF i \in S THEN Append(pick[i - 1], s[i]) ELSE pick[i - 1]
    IN pick[Len(s)]

\* The candidate list _generate_hashtags samples from: a list, not a set.
HashtagCandidates(base_hashtags, post_type) ==
    base_hashtags \o TypeHashtags(post_type) \o GeneralHashtags

\* What random.sample(hashtags, k) may pick: any k distinct positions.
SamplePositions(n) == {S \in SUBSET (1..n) : Cardinality(S) = SampleSize(n)}

\* _generate_hashtags with the positions random.sample picked.  The order
\* random.sample gives the picked elements is not modelled.
GenerateHashtags(base_hashtags, post_type, picked) ==
    AtPositions(HashtagCandidates(base_hashtags, post_type), picked)

\* A suggestion that takes a missing day-part from the general table.
SuggestBestTimeFromGeneral(industry, post_type) ==
    LET preferred_slot == CASE post_type \in {"promo", "insight"} -> "afternoon"
                            [] post_type \in {"tip", "update"} -> "morning"
                            [] OTHER -> "afternoon"
        general == IF preferred_slot = "morning" THEN "9:00 AM" ELSE "3:00 PM"
    IN CASE industry = "fitness" ->
              (IF preferred_slot = "morning" THEN "6:00 AM" ELSE general)
         [] industry = "beauty" ->
              (IF preferred_slot = "afternoon" THEN "2:00 PM" ELSE general)
         [] industry = "food" -> general
         [] OTHER -> general

\* _suggest_best_time
SuggestBestTime(industry, post_type) ==
    LET preferred_slot == CASE post_type \in {"promo", "insight"} -> "afternoon"
                            [] post_type \in {"tip", "update"} -> "morning"
                            [] OTHER -> "afternoon"
    IN CASE industry = "fitness" ->
              (IF preferred_slot = "morning" THEN "6:00 AM" ELSE "12:00 PM")
         [] industry = "beauty" ->
              (IF preferred_slot = "afternoon" THEN "2:00 PM" ELSE "12:00 PM")
         [] industry = "food" -> "12:00 PM"
         [] OTHER ->
              (IF preferred_slot = "morning" THEN "9:00 AM" ELSE "3:00 PM")

\* content_vars of _generate_standard_post, as the set of its keys.
StandardContentVars(post_type) ==
    {"business_name", "call_to_action", "value_prop", "contact_info"}
    \cup (CASE post_type = "promo" -> {"offer"}
            [] post_type = "tip" -> {"tip_content", "benefit"}
            [] post_type = "update" -> {"update_content"}
            [] OTHER -> {})

\* A format that leaves a slot without value as it stands in the template.
StandardContentUnchecked(post_type, tone, template) ==
    [kind |-> "template", post_type |-> post_type, tone |-> tone,
     template |-> template, slots |-> TemplateSlots(post_type, tone)[template]]

\* template.format(**content_vars) with its KeyError fallback.  A content is
\* the template it was formatted from, or the fallback sentence; the pool
\* strings random.choice put into the slots are not told apart.
StandardContent(post_type, tone, template) ==
    LET slots == TemplateSlots(post_type, tone)[template]
        content_vars == StandardContentVars(post_type)
    IN IF slots \subseteq content_vars
       THEN [kind |-> "template", post_type |-> post_type, tone |-> tone,
             template |-> template, slots |-> slots]
       ELSE [kind |-> "fallback", sentence |-> "Great news from",
             offer |-> ("offer" \in content_vars)]

\* _generate_standard_post, given the template random.choice picked.
GenerateStandardPost(industry, tone, post_type, template) ==
    IF ~HasTemplates(post_type, tone) THEN [kind |-> "KeyError"]
    ELSE [kind |-> "post",
          post |-> [content |-> StandardContent(post_type, tone, template),
                    post_type |-> post_type,
                    tone |-> tone,
                    industry |-> industry,
                    best_time_to_post |-> SuggestBestTime(industry, post_type)]]

\* news_item.get('headline', 'Industry trends continue to evolve')
Headline(news_item) ==
    IF "headline" \in DOMAIN news_item THEN news_item.headline
    ELSE "Industry trends continue to evolve"

\* _generate_insight_post, given the news item and template random.choice picked.
GenerateInsightPost(industry, tone, industry_news, item, template) ==
    IF industry_news = <<>> THEN GenerateStandardPost(industry, tone, "tip", template)
    ELSE IF ~HasTemplates("insight", tone) THEN [kind |-> "KeyError"]
    ELSE LET slots == TemplateSlots("insight", tone)[template]
             content_vars == {"business_name", "insight_content", "call_to_action"}
             content ==
                 IF slots \subseteq content_vars
                 THEN [kind |-> "template", post_type |-> "insight", tone |-> tone,
                       template |-> template, slots |-> slots,
                       insight_content |-> Headline(industry_news[item])]
                 ELSE [kind |-> "fallback", sentence |-> "Industry update:",
                       insight_content |-> Headline(industry_news[item])]
         IN [kind |-> "post",
             post |-> [content |-> content,
                       post_type |-> "insight",
                       tone |-> tone,
                       industry |-> industry,
                       best_time_to_post |-> SuggestBestTime(industry, "insight")]]

\* A distribution that walks the preferred types from the last to the first.
DistributePostTypesBackwards(frequency, preferred_types) ==
    LET types == IF preferred_types = <<>> THEN <<"promo", "tip", "update">>
                 ELSE preferred_types
    IN [i \in 1..Max(frequency, 0) |-> types[Len(types) - ((i - 1) % Len(types))]]

\* _distribute_post_types
DistributePostTypes(frequency, preferred_types) ==
    LET types == IF preferred_types = <<>> THEN <<"promo", "tip", "update">>
                 ELSE preferred_types
    IN [i \in 1..Max(frequency, 0) |-> types[((i - 1) % Len(types)) + 1]]

\* A loop body that sends every insight request to _generate_insight_post,
\* whose fallback without news is a tip post.
GenerateOneThroughInsight(industry, tone, post_type, industry_news, item, template) ==
    IF post_type = "insight"
    THEN GenerateInsightPost(industry, tone, industry_news, item, template)
    ELSE GenerateStandardPost(industry, tone, post_type, template)

\* One iteration of the loop of generate_posts.
GenerateOne(industry, tone, post_type, industry_news, item, template) ==
    IF post_type = "insight" /\ industry_news # <<>>
    THEN GenerateInsightPost(industry, tone, industry_news, item, template)
    ELSE GenerateStandardPost(industry, tone, post_type, template)

\* generate_posts, given the random choices of each iteration: the posts list,
\* or the KeyError of the first iteration that raises.
GeneratePosts(industry, tone, frequency, preferred_types, industry_news, items, templates) ==
    LET post_types == DistributePostTypes(frequency, preferred_types)
        made == [i \in DOMAIN post_types |->
                    GenerateOne(industry, tone, post_types[i], industry_news,
                                items[i], templates[i])]
    IN IF \E i \in DOMAIN made : made[i].kind = "KeyError"
       THEN [kind |-> "KeyError"]
       ELSE [kind |-> "returned", posts |-> [i \in DOMAIN made |-> made[i].post]]

(***************************************************************************)
(* SpecSched: create_weekly_schedule applied to bounded arguments.         *)
(***************************************************************************)
MaxPosts == 3
MaxPrefLen == 2
MaxFrequency == 8

\* The k-th post of a caller's list.  Generated posts carry best_time_to_post;
\* every third post of the pool is a dict without it.
PoolPost(k) ==
    IF k % 3 = 0 THEN [id |-> k]
    ELSE [id |-> k, best_time_to_post |-> IF k % 3 = 1 THEN "9:00 AM" ELSE "3:00 PM"]

PostLists == {[k \in 1..n |-> PoolPost(k)] : n \in 0..MaxPosts}

\* Preferred-day lists: every list of at most MaxPrefLen day names, and some
\* longer ones (the documented example, the whole week, a reversed week, a list
\* with a repeat, a list with a name that is no day).
PrefLists ==
    SeqsUpTo(Range(Days), MaxPrefLen)
    \cup {<<"monday", "wednesday", "friday">>,
          Days,
          <<"sunday", "saturday", "friday", "thursday", "wednesday", "tuesday", "monday">>,
          <<"friday", "friday", "monday", "tuesday">>,
          <<"funday", "monday", "tuesday">>}

Frequencies == (-1)..MaxFrequency

\* 2025-08-04 is a Monday, 2024-02-27 a Tuesday before a leap day, 2025-12-29
\* a week that crosses the year; 2025-02-30 is no date; NoDate is "not given".
StartDates == {<<2025, 8, 4>>, <<2024, 2, 27>>, <<2025, 12, 29>>, <<2025, 2, 30>>, NoDate}

\* What datetime.now() may be on the day of the call.
Todays == {<<2025, 8, 6>>, <<2024, 12, 28>>}

SchedInputs ==
    [posts : PostLists, frequency : Frequencies, preferred_days : PrefLists,
     start_date : StartDates]

IdleGen == gen_in = NoResult /\ gen_out = NoResult

IdleTags == tags_in = NoResult /\ tags_out = NoResult

IdleApp ==
    /\ posts = <<>>
    /\ schedules = 0
    /\ clock = 0
    /\ mock_mode = TRUE
    /\ response = NoResult

IdleSched == sched_in = NoResult /\ sched_out = NoResult

IdleSite == site_in = NoResult /\ site_out = NoResult

IdleHelp == help_in = NoResult /\ help_out = NoResult

\* No scheduler call on objects and no request thread is under study.
IdleFrame == heap = <<>>

IdleRace == threads = <<>>

InitSched ==
    /\ sched_in \in SchedInputs
    /\ sched_out = NoResult
    /\ IdleGen /\ IdleTags /\ IdleApp /\ IdleSite /\ IdleHelp
    /\ IdleFrame /\ IdleRace

\* The call returns or raises.
CallCreateWeeklySchedule ==
    /\ sched_out = NoResult
    /\ \E today \in Todays :
         sched_out' = CreateWeeklySchedule(sched_in.posts, sched_in.frequency,
                                           sched_in.preferred_days,
                                           sched_in.start_date, today)
    /\ UNCHANGED <<sched_in, genVars, tagVars, appVars, siteVars, helpVars, frameVars, raceVars>>

NextSched == CallCreateWeeklySchedule

SpecSched == InitSched /\ [][NextSched]_vars

(***************************************************************************)
(* Properties of create_weekly_schedule (SpecSched).                       *)
(***************************************************************************)
SchedCalled == sched_out # NoResult

SchedDateUsable == sched_in.start_date = NoDate \/ IsValidDate(sched_in.start_date)

\* The first date of the week the call was asked for: start_date, or the
\* current date the call read when none was given.
SchedStart ==
    IF sched_in.start_date # NoDate THEN ToOrdinal(sched_in.start_date)
    ELSE sched_out.start

WeekOrder ==
    <<"monday", "tuesday", "wednesday", "thursday", "friday", "saturday", "sunday">>

FilledDays(schedule) == {day \in DOMAIN schedule : schedule[day].post # NoPost}

\* C1: for every posts list, frequency, preferredDays list and start date the
\* call returns a mapping with exactly the 7 keys monday..sunday, and the date
\* of the i-th key in that order is startDate + i days (i = 0..6), whatever
\* weekday startDate is.
C1_SevenSlotsDatedFromStart ==
    (SchedCalled /\ SchedDateUsable) =>
        /\ sched_out.kind = "returned"
        /\ DOMAIN sched_out.schedule = Range(WeekOrder)
        /\ Cardinality(DOMAIN sched_out.schedule) = 7
        /\ \A i \in 1..7 :
             LET date == sched_out.schedule[WeekOrder[i]].date IN
             /\ IsValidDate(date)
             /\ ToOrdinal(date) = SchedStart + (i - 1)
        /\ (sched_in.start_date = <<2025, 8, 4>> =>
              /\ sched_out.schedule["monday"].date = <<2025, 8, 4>>
              /\ sched_out.schedule["wednesday"].date = <<2025, 8, 6>>
              /\ sched_out.schedule["friday"].date = <<2025, 8, 8>>)
        /\ (sched_in.start_date = <<2024, 2, 27>> =>
              /\ sched_out.schedule["monday"].date = <<2024, 2, 27>>
              /\ sched_out.schedule["wednesday"].date = <<2024, 2, 29>>
              /\ sched_out.schedule["thursday"].date = <<2024, 3, 1>>)
        /\ (sched_in.start_date = <<2025, 12, 29>> =>
              sched_out.schedule["sunday"].date = <<2026, 1, 4>>)

\* C1 witness: a schedule was returned for a week that starts on a Tuesday and
\* crosses a leap day, with a post on its "monday".
C1_Witness ==
    /\ sched_out.kind = "returned"
    /\ sched_in.start_date = <<2024, 2, 27>>
    /\ sched_out.schedule["monday"].post # NoPost
    /\ sched_out.schedule["sunday"].date = <<2024, 3, 4>>

\* C2: a day's slot holds posts[k] with that post's best time to post exactly
\* when the day occurs in postingDays with first index k and k < |posts|
\* (k counted from 0; from 1 here, so k <= |posts|); every other slot has
\* post = null and suggestedTime = null.  In particular frequency 3 with
\* [monday, wednesday, friday] puts posts[0..2] on those days and leaves the
\* other four days empty.
C2_SlotHoldsPostOfFirstIndex ==
    sched_out.kind = "returned" =>
        LET pd == PostingDays(sched_in.preferred_days, sched_in.frequency)
            ps == sched_in.posts
            sc == sched_out.schedule
        IN /\ \A day \in Range(WeekOrder) :
                LET occ == {k \in DOMAIN pd : pd[k] = day}
                    first == CHOOSE k \in occ : \A j \in occ : k <= j
                IN IF occ # {} /\ first <= Len(ps)
                   THEN /\ sc[day].post = ps[first]
                        /\ ("best_time_to_post" \in DOMAIN ps[first] =>
                              sc[day].suggested_time = ps[first].best_time_to_post)
                   ELSE /\ sc[day].post = NoPost
                        /\ sc[day].suggested_time = None
           /\ (/\ sched_in.frequency = 3
               /\ sched_in.preferred_days = <<"monday", "wednesday", "friday">>
               /\ Len(ps) >= 3) =>
                  /\ sc["monday"].post = ps[1]
                  /\ sc["wednesday"].post = ps[2]
                  /\ sc["friday"].post = ps[3]
                  /\ \A day \in {"tuesday", "thursday", "saturday", "sunday"} :
                       sc[day].post = NoPost /\ sc[day].suggested_time = None

\* C2 witness: the documented example, three posts on monday, wednesday, friday.
C2_Witness ==
    /\ sched_out.kind = "returned"
    /\ sched_in.frequency = 3
    /\ sched_in.preferred_days = <<"monday", "wednesday", "friday">>
    /\ Len(sched_in.posts) = 3
    /\ sched_out.schedule["friday"].post = sched_in.posts[3]
    /\ sched_out.schedule["wednesday"].suggested_time = "3:00 PM"
    /\ FilledDays(sched_out.schedule) = {"monday", "wednesday", "friday"}

\* C3 as claimed: with frequency greater than the number of supplied posts the
\* call fails with a validation error.
C3_FailsWhenFrequencyExceedsPosts ==
    (SchedCalled /\ SchedDateUsable /\ sched_in.frequency > Len(sched_in.posts)) =>
        sched_out.kind = "ValidationError"

\* C3 amended: with frequency greater than the number of supplied posts the
\* call does not fail; it returns the 7-slot schedule, in which at most |posts|
\* slots, so fewer than frequency, hold a post, each of them a supplied post.
C3_UnderfillsWithoutError ==
    (SchedCalled /\ SchedDateUsable /\ sched_in.frequency > Len(sched_in.posts)) =>
        /\ sched_out.kind = "returned"
        /\ Cardinality(FilledDays(sched_out.schedule)) <= Len(sched_in.posts)
        /\ Cardinality(FilledDays(sched_out.schedule)) < sched_in.frequency
        /\ \A day \in FilledDays(sched_out.schedule) :
             sched_out.schedule[day].post \in Range(sched_in.posts)

\* C3 witness: frequency 3 with one post returns a schedule with one filled slot.
C3_Witness ==
    /\ sched_out.kind = "returned"
    /\ sched_in.frequency = 3
    /\ Len(sched_in.posts) = 1
    /\ Cardinality(FilledDays(sched_out.schedule)) = 1

(***************************************************************************)
(* SpecGen: generate_posts applied to bounded arguments.                   *)
(***************************************************************************)
MaxGenFrequency == 3
MaxTypes == 2

\* fitness has its own pool and time table, food a time table without the
\* day-parts the post types ask for, retail is an industry without a pool.
GenIndustries == {"fitness", "food", "retail"}

\* The four tones with templates and the "witty" of the API docstring.
GenTones == TemplateTones \cup {"witty"}

\* The four post types with templates and one without.
GenTypes == TemplateTypes \cup {"poll"}

NewsLists == {<<>>, <<[headline |-> "HIIT workouts gain popularity", source |-> "Fitness Magazine"]>>}

\* post_preferences.get('post_types', ['promo', 'tip', 'update', 'insight'])
PreferredTypes(in) ==
    IF in.has_post_types THEN in.post_types
    ELSE <<"promo", "tip", "update", "insight">>

GenInputs ==
    {in \in [industry : GenIndustries, tone : GenTones, frequency : 0..MaxGenFrequency,
             has_post_types : BOOLEAN, post_types : SeqsUpTo(GenTypes, MaxTypes),
             industry_news : NewsLists] :
        ~in.has_post_types => in.post_types = <<>>}

InitGen ==
    /\ gen_in \in GenInputs
    /\ gen_out = NoResult
    /\ IdleSched /\ IdleTags /\ IdleApp /\ IdleSite /\ IdleHelp
    /\ IdleFrame /\ IdleRace

\* The call returns its posts or raises.
CallGeneratePosts ==
    /\ gen_out = NoResult
    /\ LET n == Max(gen_in.frequency, 0)
           news == gen_in.industry_news
       IN \E templates \in [1..n -> 1..3], items \in [1..n -> 1..Max(Len(news), 1)] :
            gen_out' = GeneratePosts(gen_in.industry, gen_in.tone, gen_in.frequency,
                                     PreferredTypes(gen_in), news, items, templates)
    /\ UNCHANGED <<gen_in, schedVars, tagVars, appVars, siteVars, helpVars, frameVars, raceVars>>

NextGen == CallGeneratePosts

SpecGen == InitGen /\ [][NextGen]_vars

\* The post types generate_posts was asked for, position by position.
GenRequestedTypes == DistributePostTypes(gen_in.frequency, PreferredTypes(gen_in))

\* C7: when an insight post is requested and no news item is supplied,
\* generate_posts produces a tip post for that position: post_type tip and
\* tip content, not post_type insight.
C7_InsightWithoutNewsBecomesTip ==
    (gen_out.kind = "returned" /\ gen_in.industry_news = <<>>) =>
        \A i \in DOMAIN gen_out.posts :
            GenRequestedTypes[i] = "insight" =>
                /\ gen_out.posts[i].post_type = "tip"
                /\ \E t \in 1..3 :
                     gen_out.posts[i].content = StandardContent("tip", gen_in.tone, t)

\* C8: generate_posts called with a tone or a post type that has no templates
\* does not fail: a post is still produced for every requested position.
C8_UnknownToneOrTypeStillGenerates ==
    (/\ gen_out # NoResult
     /\ (gen_in.tone \notin TemplateTones
         \/ \E i \in DOMAIN GenRequestedTypes : GenRequestedTypes[i] \notin TemplateTypes)) =>
        /\ gen_out.kind = "returned"
        /\ Len(gen_out.posts) = Len(GenRequestedTypes)

(***************************************************************************)
(* SpecTags: the hashtags of one generated post.                           *)
(***************************************************************************)
\* Every industry with a pool, and one without.
TagIndustries == ContentIndustries \cup {"retail"}

InitTags ==
    /\ tags_in \in [industry : TagIndustries, post_type : TemplateTypes]
    /\ tags_out = NoResult
    /\ IdleSched /\ IdleGen /\ IdleApp /\ IdleSite /\ IdleHelp
    /\ IdleFrame /\ IdleRace

\* The hashtags of a post made by _generate_standard_post (any post type,
\* insight included when no news was supplied).
StandardPostHashtags ==
    /\ tags_out = NoResult
    /\ LET base == IndustryHashtags(IndustryData(tags_in.industry))
           n == Len(HashtagCandidates(base, tags_in.post_type))
       IN \E picked \in SamplePositions(n) :
            tags_out' = [kind |-> "standard",
                         hashtags |-> GenerateHashtags(base, tags_in.post_type, picked)]
    /\ UNCHANGED <<tags_in, schedVars, genVars, appVars, siteVars, helpVars, frameVars, raceVars>>

\* The hashtags of a post made by _generate_insight_post from a news item.
InsightPostHashtags ==
    /\ tags_out = NoResult
    /\ tags_in.post_type = "insight"
    /\ LET base == IndustryHashtags(IndustryData(tags_in.industry)) \o InsightExtraHashtags
           n == Len(HashtagCandidates(base, "insight"))
       IN \E picked \in SamplePositions(n) :
            tags_out' = [kind |-> "insight",
                         hashtags |-> GenerateHashtags(base, "insight", picked)]
    /\ UNCHANGED <<tags_in, schedVars, genVars, appVars, siteVars, helpVars, frameVars, raceVars>>

NextTags == StandardPostHashtags \/ InsightPostHashtags

SpecTags == InitTags /\ [][NextTags]_vars

\* The three hashtag sources of the post: its industry's list, its post
\* type's list and the three general hashtags.
TagSources ==
    Range(IndustryHashtags(IndustryData(tags_in.industry)))
    \cup Range(TypeHashtags(tags_in.post_type))
    \cup {"#local", "#smallbusiness", "#community"}

C10_HashtagsDistinct ==
    tags_out # NoResult =>
        /\ Cardinality(Range(tags_out.hashtags)) = Len(tags_out.hashtags)
        /\ Len(tags_out.hashtags) = Min(8, Cardinality(TagSources))

(***************************************************************************)
(* Spec: the HTTP application, one request handled at a time.              *)
(* data_storage.py keeps each collection in a JSON file and every          *)
(* operation loads the whole file and saves it back.  A post is a record   *)
(* of the fields the handlers read or write: hashtags, call_to_action,     *)
(* estimated_engagement and updated_at travel with the post unread and are *)
(* left out, and a content is told apart only as template text, fallback   *)
(* text or edited text.  created_at is a reading of a clock that advances  *)
(* with every post stored; published_at is recorded as present.            *)
(***************************************************************************)
MaxStoredPosts == 2
MaxSchedules == 2

\* business_profiles.json as found at start-up: the profile of the one
\* business analysed so far.  "b9" is an id without a profile.
Businesses == {"b1"}

ProfileIndustry(business_id) == "fitness"

RequestBusinesses == Businesses \cup {"b9"}

InitApp ==
    /\ posts = <<>>
    /\ schedules = 0
    /\ clock = 0
    /\ mock_mode = TRUE
    /\ response = NoResult
    /\ IdleSched /\ IdleGen /\ IdleTags /\ IdleSite /\ IdleHelp
    /\ IdleFrame /\ IdleRace

\* DataStorage.get_post: the stored post, or None.
GetPost(post_id) == IF post_id \in DOMAIN posts THEN posts[post_id] ELSE NoPost

\* dict.update: the fields of `updates` over those of `post`.
DictUpdate(post, updates) ==
    [f \in DOMAIN post \cup DOMAIN updates |->
        IF f \in DOMAIN updates THEN updates[f] ELSE post[f]]

\* DataStorage.update_post applied to the stored posts `stored`: an unknown
\* id changes nothing, a known post takes the updates and a new updated_at.
\* A time stamp taken after the post was stored reads "updated", the one
\* store_post sets reads "created".
UpdatePostIn(stored, post_id, updates) ==
    IF post_id \notin DOMAIN stored THEN stored
    ELSE [stored EXCEPT ![post_id] =
             DictUpdate(DictUpdate(stored[post_id], updates),
                        [updated_at |-> "updated"])]

\* sort(key=created_at, reverse=True) of a set of post ids: newest first.
RECURSIVE NewestFirst(_)
NewestFirst(ids) ==
    IF ids = {} THEN <<>>
    ELSE LET newest == CHOOSE i \in ids :
                           \A j \in ids : posts[j].created_at <= posts[i].created_at
         IN <<posts[newest]>> \o NewestFirst(ids \ {newest})

\* DataStorage.get_posts_by_business
GetPostsByBusiness(business_id) ==
    NewestFirst({i \in DOMAIN posts : posts[i].business_id = business_id})

\* A handler that offers every post of the business to the scheduler.
AllPostsAsDrafts(business_id) == GetPostsByBusiness(business_id)

\* draft_posts of the schedule handler.
DraftPosts(business_id) ==
    SelectSeq(GetPostsByBusiness(business_id), LAMBDA p : p.status = "draft")

\* The generated post as the handler hands it to store_post and store_post
\* stores it.
StoredPost(post, post_id, business_id, now) ==
    [id |-> post_id,
     business_id |-> business_id,
     created_at |-> now,
     updated_at |-> "created",
     status |-> "draft",
     content |-> post.content.kind,
     post_type |-> post.post_type,
     best_time_to_post |-> post.best_time_to_post]

\* POST /api/content/generate.  random.choice picks one of the three templates
\* for the first post and, here, the next one in turn for each later post.
GenerateContent(business_id, tone, frequency, preferred_types, industry_news) ==
    IF business_id \notin Businesses
    THEN /\ response' = [code |-> 404, kind |-> "generate"]
         /\ UNCHANGED <<posts, clock>>
    ELSE LET n == Max(frequency, 0)
             industry == ProfileIndustry(business_id)
         IN \E template \in 1..3,
               items \in [1..n -> 1..Max(Len(industry_news), 1)] :
              LET templates == [k \in 1..n |-> ((template + k) % 3) + 1]
                  out == GeneratePosts(industry, tone, frequency, preferred_types,
                                       industry_news, items, templates)
              IN IF out.kind = "KeyError"
                 THEN /\ response' = [code |-> 500, kind |-> "generate"]
                      /\ UNCHANGED <<posts, clock>>
                 ELSE LET stored ==
                              [k \in 1..Len(out.posts) |->
                                  StoredPost(out.posts[k], Len(posts) + k,
                                             business_id, clock + k)]
                      IN /\ Len(posts) + Len(out.posts) <= MaxStoredPosts
                         /\ posts' = posts \o stored
                         /\ clock' = clock + Len(out.posts)
                         /\ response' = [code |-> 200, kind |-> "generate"]

GenerateContentRequest ==
    /\ \E business_id \in RequestBusinesses, tone \in {"friendly", "witty"},
          frequency \in 1..2 :
         GenerateContent(business_id, tone, frequency, <<"promo">>, <<>>)
    /\ UNCHANGED <<schedules, mock_mode, schedVars, genVars, tagVars,
                 siteVars, helpVars, frameVars, raceVars>>

\* The loop "Update post statuses to scheduled" over the days at positions
\* i..7: each filled slot's post gets status and scheduled_date and is written
\* back.  Returns the schedule and the stored posts after the loop.
RECURSIVE MarkScheduled(_, _, _)
MarkScheduled(i, schedule, stored) ==
    IF i > Len(Days) THEN [schedule |-> schedule, stored |-> stored]
    ELSE LET day == Days[i]
             slot == schedule[day]
         IN IF slot.post = NoPost THEN MarkScheduled(i + 1, schedule, stored)
            ELSE LET post == DictUpdate(slot.post,
                                 [status |-> "scheduled", scheduled_date |-> slot.date])
                 IN MarkScheduled(i + 1,
                        [schedule EXCEPT ![day].post = post],
                        UpdatePostIn(stored, post.id, post))

\* A loop that stamps every scheduled post with the week's first date.
RECURSIVE MarkScheduledAtWeekStart(_, _, _)
MarkScheduledAtWeekStart(i, schedule, stored) ==
    IF i > Len(Days) THEN [schedule |-> schedule, stored |-> stored]
    ELSE LET day == Days[i]
             slot == schedule[day]
         IN IF slot.post = NoPost THEN MarkScheduledAtWeekStart(i + 1, schedule, stored)
            ELSE LET post == DictUpdate(slot.post,
                                 [status |-> "scheduled",
                                  scheduled_date |-> schedule["monday"].date])
                 IN MarkScheduledAtWeekStart(i + 1,
                        [schedule EXCEPT ![day].post = post],
                        UpdatePostIn(stored, post.id, post))

\* A loop that starts at the week's first date.
UpdateStatusesAtWeekStart(schedule, stored) ==
    MarkScheduledAtWeekStart(1, schedule, stored)

\* The status-update loop of the schedule handler, from the first day.
UpdateStatuses(schedule, stored) == MarkScheduled(1, schedule, stored)

\* The day the requests are made.  A request leaves start_date out, and gets
\* the week that starts today, or names a date that does not exist.
Today == <<2024, 2, 27>>

\* A schedule handler that schedules the drafts there are without comparing
\* their number with the frequency.
CreateScheduleHandlerUnchecked(business_id, frequency, preferred_days, start_date, today) ==
    LET draft_posts == DraftPosts(business_id)
        given == IF start_date = NoDate THEN today ELSE start_date
        request == [business_id |-> business_id, frequency |-> frequency]
        out == CreateWeeklySchedule(PySlice(draft_posts, frequency), frequency,
                                    preferred_days, given, today)
    IN IF out.kind # "returned"
       THEN /\ response' = [code |-> 500, kind |-> "schedule", request |-> request]
            /\ UNCHANGED <<posts, schedules>>
       ELSE LET done == UpdateStatuses(out.schedule, posts)
            IN /\ schedules < MaxSchedules
               /\ posts' = done.stored
               /\ schedules' = schedules + 1
               /\ response' = [code |-> 200, kind |-> "schedule",
                               request |-> request, schedule |-> done.schedule]

\* POST /api/planner/schedule.  A body without start_date gets today's date.
\* The response is recorded with the request it answers.
CreateScheduleHandler(business_id, frequency, preferred_days, start_date, today) ==
    LET draft_posts == DraftPosts(business_id)
        given == IF start_date = NoDate THEN today ELSE start_date
        request == [business_id |-> business_id, frequency |-> frequency]
    IN IF Len(draft_posts) < frequency
       THEN /\ response' = [code |-> 400, kind |-> "schedule", request |-> request]
            /\ UNCHANGED <<posts, schedules>>
       ELSE LET out == CreateWeeklySchedule(PySlice(draft_posts, frequency), frequency,
                                            preferred_days, given, today)
            IN IF out.kind # "returned"
               THEN /\ response' = [code |-> 500, kind |-> "schedule",
                                    request |-> request]
                    /\ UNCHANGED <<posts, schedules>>
               ELSE LET done == UpdateStatuses(out.schedule, posts)
                    IN /\ schedules < MaxSchedules
                       /\ posts' = done.stored
                       /\ schedules' = schedules + 1
                       /\ response' = [code |-> 200, kind |-> "schedule",
                                       request |-> request,
                                       schedule |-> done.schedule]

CreateScheduleRequest ==
    /\ \E business_id \in Businesses, frequency \in 0..3,
          preferred_days \in {<<>>, <<"wednesday", "wednesday">>},
          start_date \in {<<2025, 2, 30>>, NoDate} :
         CreateScheduleHandler(business_id, frequency, preferred_days, start_date,
                               Today)
    /\ UNCHANGED <<clock, mock_mode, schedVars, genVars, tagVars,
                 siteVars, helpVars, frameVars, raceVars>>

\* PUT with status among the fields it may change.
UpdatableFieldsWithStatus ==
    {"content", "hashtags", "call_to_action", "scheduled_date", "status"}

\* The fields PUT /api/posts/<id> may change.
UpdatableFields == {"content", "hashtags", "call_to_action", "scheduled_date"}

\* PUT /api/posts/<post_id> with JSON body `data`.  The response is recorded
\* with the request it answers.
UpdatePostHandler(post_id, data) ==
    LET existing_post == GetPost(post_id)
        request == [post_id |-> post_id, data |-> data]
    IN
    IF DOMAIN data = {}
    THEN /\ response' = [code |-> 400, kind |-> "update", request |-> request]
         /\ UNCHANGED posts
    ELSE IF existing_post = NoPost
    THEN /\ response' = [code |-> 404, kind |-> "update", request |-> request]
         /\ UNCHANGED posts
    ELSE LET edited == DictUpdate(existing_post,
                           [f \in DOMAIN data \cap UpdatableFields |-> data[f]])
             changed == DictUpdate(edited, [updated_at |-> "updated"])
         IN /\ posts' = UpdatePostIn(posts, post_id, changed)
            /\ response' = [code |-> 200, kind |-> "update", request |-> request,
                            post |-> changed]

UpdatePostRequest ==
    /\ \E post_id \in 1..(Len(posts) + 1),
          data \in {<<>>,
                    [content |-> "edited", status |-> "published", id |-> 0,
                     business_id |-> "b9", post_type |-> "poll"]} :
         UpdatePostHandler(post_id, data)
    /\ UNCHANGED <<schedules, clock, mock_mode, schedVars, genVars, tagVars,
                 siteVars, helpVars, frameVars, raceVars>>

\* FacebookIntegration.publish_post: in mock mode always a success; in real
\* mode the Graph API call succeeds or fails, and a failure is returned as a
\* result with success False and no post_id.
PublishResults ==
    IF mock_mode THEN {[success |-> TRUE, post_id |-> "fb_post"]}
    ELSE {[success |-> TRUE, post_id |-> "fb_post"], [success |-> FALSE, post_id |-> None]}

\* A publish handler that refuses a post that was not scheduled.
PublishPostHandlerScheduledOnly(post_id, has_credentials, publish_result) ==
    LET post == GetPost(post_id)
        request == [post_id |-> post_id, has_credentials |-> has_credentials]
    IN
    IF post = NoPost
    THEN /\ response' = [code |-> 404, kind |-> "publish", request |-> request]
         /\ UNCHANGED posts
    ELSE IF ~has_credentials \/ post.status # "scheduled"
    THEN /\ response' = [code |-> 400, kind |-> "publish", request |-> request]
         /\ UNCHANGED posts
    ELSE LET published == DictUpdate(post,
                              [status |-> "published",
                               published_at |-> "stamp",
                               facebook_post_id |-> publish_result.post_id])
         IN /\ posts' = UpdatePostIn(posts, post_id, published)
            /\ response' = [code |-> 200, kind |-> "publish", request |-> request,
                            post |-> published, facebook_result |-> publish_result]

\* POST /api/posts/<post_id>/publish with a body that has, or lacks,
\* page_id and access_token.  The response is recorded with the request it
\* answers.
PublishPostHandler(post_id, has_credentials, publish_result) ==
    LET post == GetPost(post_id)
        request == [post_id |-> post_id, has_credentials |-> has_credentials]
    IN
    IF post = NoPost
    THEN /\ response' = [code |-> 404, kind |-> "publish", request |-> request]
         /\ UNCHANGED posts
    ELSE IF ~has_credentials
    THEN /\ response' = [code |-> 400, kind |-> "publish", request |-> request]
         /\ UNCHANGED posts
    ELSE LET published == DictUpdate(post,
                              [status |-> "published",
                               published_at |-> "stamp",
                               facebook_post_id |-> publish_result.post_id])
         IN /\ posts' = UpdatePostIn(posts, post_id, published)
            /\ response' = [code |-> 200, kind |-> "publish", request |-> request,
                            post |-> published, facebook_result |-> publish_result]

PublishPostRequest ==
    /\ \E post_id \in 1..(Len(posts) + 1), has_credentials \in BOOLEAN,
          publish_result \in PublishResults :
         PublishPostHandler(post_id, has_credentials, publish_result)
    /\ UNCHANGED <<schedules, clock, mock_mode, schedVars, genVars, tagVars,
                 siteVars, helpVars, frameVars, raceVars>>

Next ==
    \/ GenerateContentRequest
    \/ CreateScheduleRequest
    \/ UpdatePostRequest
    \/ PublishPostRequest

Spec == InitApp /\ [][Next]_vars

\* A post without its updated_at stamp: the post a handler returns carries
\* the stamp it was read with, the stored one the stamp of the write.
Unstamped(post) == [f \in DOMAIN post \ {"updated_at"} |-> post[f]]

\* The status of stored post i changes from `from` to `to` in this step.
StatusStep(i, from, to) ==
    /\ posts[i].status = from
    /\ posts'[i].status = to

StatusChanges(i) == posts'[i].status # posts[i].status

\* C4 as stated: a post's status changes only draft -> scheduled and
\* scheduled -> published; a post is never published directly from draft.
C4_PublishedOnlyFromScheduled ==
    [][\A i \in DOMAIN posts :
          StatusChanges(i) => \/ StatusStep(i, "draft", "scheduled")
                              \/ StatusStep(i, "scheduled", "published")]_vars

\* C4, amended: a post is stored as draft, becomes scheduled only from draft,
\* becomes published from draft or from scheduled, and once published keeps
\* that status; stored posts are never removed.
C4_StatusOnlyMovesForward ==
    [][/\ DOMAIN posts \subseteq DOMAIN posts'
       /\ \A i \in DOMAIN posts' \ DOMAIN posts : posts'[i].status = "draft"
       /\ \A i \in DOMAIN posts :
             StatusChanges(i) => \/ StatusStep(i, "draft", "scheduled")
                                 \/ StatusStep(i, "draft", "published")
                                 \/ StatusStep(i, "scheduled", "published")]_vars

\* One post was published without ever being scheduled and another was
\* published after being scheduled.
C4_Witness ==
    \E i, j \in DOMAIN posts :
        /\ posts[i].status = "published"
        /\ "scheduled_date" \notin DOMAIN posts[i]
        /\ posts[j].status = "published"
        /\ "scheduled_date" \in DOMAIN posts[j]

\* C5: a publish request that names a stored post and supplies page_id and
\* access_token is answered with success, and the stored post, which the
\* response returns (but for the updated_at stamp), has status published,
\* whatever its status was before.
C5_PublishSucceedsFromAnyStatus ==
    (/\ response.kind = "publish"
     /\ response.request.has_credentials
     /\ response.request.post_id \in DOMAIN posts)
    => /\ response.code = 200
       /\ Unstamped(response.post) = Unstamped(posts[response.request.post_id])
       /\ posts[response.request.post_id].status = "published"
       /\ response.post.status = "published"

\* A post that was generated and never scheduled has just been published.
C5_Witness ==
    /\ response.kind = "publish"
    /\ response.code = 200
    /\ schedules = 0
    /\ "scheduled_date" \notin DOMAIN response.post

\* The posts held by the filled slots of a schedule.
SlotPostIds(schedule) == {schedule[day].post.id : day \in FilledDays(schedule)}

\* C6: after a successful schedule request every filled slot of the returned
\* schedule holds a post, stored as returned but for its updated_at stamp,
\* whose scheduled_date is the slot's date and whose status is scheduled, and
\* no post outside the filled slots was changed.
C6_ScheduledDateIsSlotDate ==
    [][(response'.kind = "schedule" /\ response'.code = 200) =>
          LET schedule == response'.schedule IN
          /\ \A day \in FilledDays(schedule) :
                LET slot == schedule[day] IN
                /\ slot.post.scheduled_date = slot.date
                /\ slot.post.status = "scheduled"
                /\ Unstamped(posts'[slot.post.id]) = Unstamped(slot.post)
          /\ DOMAIN posts' = DOMAIN posts
          /\ \A i \in DOMAIN posts \ SlotPostIds(schedule) : posts'[i] = posts[i]]_vars

\* A schedule was returned with a filled slot after the week's first day and
\* an empty slot, while a post outside the schedule is stored.
C6_Witness ==
    /\ response.kind = "schedule"
    /\ response.code = 200
    /\ \E day \in FilledDays(response.schedule) : day # "monday"
    /\ FilledDays(response.schedule) # Range(Days)
    /\ DOMAIN posts \ SlotPostIds(response.schedule) # {}

\* The fields in which the posts `before` and `after` differ.
ChangedFields(before, after) ==
    {f \in DOMAIN before \cup DOMAIN after :
        \/ f \notin DOMAIN before
        \/ f \notin DOMAIN after
        \/ before[f] # after[f]}

\* C22: a PUT request changes, in the post it names, only fields among
\* content, hashtags, call_to_action and scheduled_date that its body holds,
\* and the updated_at stamp; status, business_id, post_type and id stay as
\* they were whatever the body holds; no other post changes, and a request
\* for an unknown id changes nothing.
C22_UpdateChangesOnlyListedFields ==
    [][response'.kind = "update" =>
          LET post_id == response'.request.post_id
              data == response'.request.data
          IN /\ DOMAIN posts' = DOMAIN posts
             /\ \A i \in DOMAIN posts : i # post_id => posts'[i] = posts[i]
             /\ post_id \in DOMAIN posts =>
                   /\ ChangedFields(posts[post_id], posts'[post_id])
                         \subseteq (DOMAIN data \cap {"content", "hashtags",
                                                     "call_to_action", "scheduled_date"})
                                   \cup {"updated_at"}
                   /\ \A f \in {"status", "business_id", "post_type", "id"} :
                         posts'[post_id][f] = posts[post_id][f]]_vars

\* A PUT whose body holds content, status, id, business_id and post_type was
\* answered with success for a scheduled post: the stored post has the new
\* content and is still scheduled.
C22_Witness ==
    /\ response.kind = "update"
    /\ response.code = 200
    /\ {"content", "status", "business_id", "post_type", "id"}
          \subseteq DOMAIN response.request.data
    /\ posts[response.request.post_id].content = response.request.data.content
    /\ posts[response.request.post_id].status = "scheduled"
    /\ response.request.data.status # "scheduled"

\* C23: across sequentially handled schedule requests no post is placed into
\* more than one schedule: a successful request places only posts that were
\* draft when it was handled, each placed post is scheduled when the request
\* is answered, and no request turns a post that left draft into a draft again.
C23_PlacedOnceOnly ==
    [][/\ \A i \in DOMAIN posts :
             posts[i].status # "draft" =>
                 i \in DOMAIN posts' /\ posts'[i].status # "draft"
       /\ (response'.kind = "schedule" /\ response'.code = 200) =>
             \A i \in SlotPostIds(response'.schedule) :
                 /\ posts[i].status = "draft"
                 /\ posts'[i].status = "scheduled"]_vars

\* A second schedule was stored and placed a post, while the post the first
\* schedule placed is still scheduled and is not in the second one.
C23_Witness ==
    /\ response.kind = "schedule"
    /\ response.code = 200
    /\ schedules = 2
    /\ SlotPostIds(response.schedule) # {}
    /\ \E i \in DOMAIN posts \ SlotPostIds(response.schedule) :
          posts[i].status = "scheduled"

\* The number of draft posts stored for a business.
DraftCount(business_id) ==
    Cardinality({i \in DOMAIN posts : /\ posts[i].business_id = business_id
                                      /\ posts[i].status = "draft"})

\* C24: a schedule request for a business with fewer draft posts than the
\* requested frequency is answered with an error, stores no schedule and
\* changes no stored post (so no status and no scheduled_date).
C24_TooFewDraftsChangesNothing ==
    [][(/\ response'.kind = "schedule"
        /\ DraftCount(response'.request.business_id) < response'.request.frequency)
       => /\ response'.code = 400
          /\ posts' = posts
          /\ schedules' = schedules]_vars

\* A request for two posts was refused while one draft post and one scheduled
\* post of the business are stored.
C24_Witness ==
    /\ response.kind = "schedule"
    /\ response.code = 400
    /\ response.request.frequency = 2
    /\ DraftCount(response.request.business_id) = 1
    /\ \E i \in DOMAIN posts : /\ posts[i].business_id = response.request.business_id
                               /\ posts[i].status = "scheduled"

(***************************************************************************)
(* SpecSite: BusinessAnalyzer (business_analyzer.py).  A text is the       *)
(* sequence of its characters, so that "keyword in text" is the substring  *)
(* test Python makes.  The page a website serves is reduced to what the    *)
(* classifiers read: its text and the service names extracted from it.     *)
(***************************************************************************)
\* self.industry_keywords, in the order the dict literal lists the buckets.
IndustryOrder ==
    <<"fitness", "beauty", "food", "retail", "healthcare", "education",
      "professional", "automotive", "entertainment">>

industry_keywords ==
    [fitness |->
        <<<<"g", "y", "m">>,
          <<"f", "i", "t", "n", "e", "s", "s">>,
          <<"w", "o", "r", "k", "o", "u", "t">>,
          <<"t", "r", "a", "i", "n", "i", "n", "g">>,
          <<"e", "x", "e", "r", "c", "i", "s", "e">>,
          <<"h", "e", "a", "l", "t", "h", " ", "c", "l", "u", "b">>,
          <<"p", "e", "r", "s", "o", "n", "a", "l", " ", "t", "r", "a", "i", "n", "e", "r">>>>,
     beauty |->
        <<<<"s", "a", "l", "o", "n">>,
          <<"s", "p", "a">>,
          <<"b", "e", "a", "u", "t", "y">>,
          <<"h", "a", "i", "r">>,
          <<"n", "a", "i", "l">>,
          <<"m", "a", "s", "s", "a", "g", "e">>,
          <<"f", "a", "c", "i", "a", "l">>,
          <<"c", "o", "s", "m", "e", "t", "i", "c">>>>,
     food |->
        <<<<"r", "e", "s", "t", "a", "u", "r", "a", "n", "t">>,
          <<"c", "a", "f", "e">>,
          <<"c", "o", "f", "f", "e", "e">>,
          <<"d", "i", "n", "i", "n", "g">>,
          <<"f", "o", "o", "d">>,
          <<"b", "a", "k", "e", "r", "y">>,
          <<"c", "a", "t", "e", "r", "i", "n", "g">>,
          <<"b", "i", "s", "t", "r", "o">>>>,
     retail |->
        <<<<"s", "h", "o", "p">>,
          <<"s", "t", "o", "r", "e">>,
          <<"b", "o", "u", "t", "i", "q", "u", "e">>,
          <<"r", "e", "t", "a", "i", "l">>,
          <<"f", "a", "s", "h", "i", "o", "n">>,
          <<"c", "l", "o", "t", "h", "i", "n", "g">>,
          <<"a", "c", "c", "e", "s", "s", "o", "r", "i", "e", "s">>>>,
     healthcare |->
        <<<<"m", "e", "d", "i", "c", "a", "l">>,
          <<"d", "e", "n", "t", "a", "l">>,
          <<"c", "l", "i", "n", "i", "c">>,
          <<"d", "o", "c", "t", "o", "r">>,
          <<"h", "e", "a", "l", "t", "h", "c", "a", "r", "e">>,
          <<"t", "h", "e", "r", "a", "p", "y">>,
          <<"w", "e", "l", "l", "n", "e", "s", "s">>>>,
     education |->
        <<<<"s", "c", "h", "o", "o", "l">>,
          <<"a", "c", "a", "d", "e", "m", "y">>,
          <<"t", "r", "a", "i", "n", "i", "n", "g">>,
          <<"e", "d", "u", "c", "a", "t", "i", "o", "n">>,
          <<"l", "e", "a", "r", "n", "i", "n", "g">>,
          <<"c", "o", "u", "r", "s", "e">>,
          <<"t", "u", "t", "o", "r">>>>,
     professional |->
        <<<<"c", "o", "n", "s", "u", "l", "t", "i", "n", "g">>,
          <<"l", "e", "g", "a", "l">>,
          <<"a", "c", "c", "o", "u", "n", "t", "i", "n", "g">>,
          <<"f", "i", "n", "a", "n", "c", "i", "a", "l">>,
          <<"i", "n", "s", "u", "r", "a", "n", "c", "e">>,
          <<"r", "e", "a", "l", " ", "e", "s", "t", "a", "t", "e">>>>,
     automotive |->
        <<<<"a", "u", "t", "o">>,
          <<"c", "a", "r">>,
          <<"g", "a", "r", "a", "g", "e">>,
          <<"m", "e", "c", "h", "a", "n", "i", "c">>,
          <<"r", "e", "p", "a", "i", "r">>,
          <<"d", "e", "a", "l", "e", "r", "s", "h", "i", "p">>,
          <<"v", "e", "h", "i", "c", "l", "e">>>>,
     entertainment |->
        <<<<"e", "n", "t", "e", "r", "t", "a", "i", "n", "m", "e", "n", "t">>,
          <<"e", "v", "e", "n", "t">>,
          <<"p", "a", "r", "t", "y">>,
          <<"m", "u", "s", "i", "c">>,
          <<"v", "e", "n", "u", "e">>,
          <<"c", "l", "u", "b">>,
          <<"t", "h", "e", "a", "t", "e", "r">>>>]

\* self.tone_indicators, in the order the dict literal lists the buckets.
ToneOrder == <<"professional", "friendly", "casual", "premium">>

tone_indicators ==
    [professional |->
        <<<<"e", "x", "p", "e", "r", "t">>,
          <<"p", "r", "o", "f", "e", "s", "s", "i", "o", "n", "a", "l">>,
          <<"c", "e", "r", "t", "i", "f", "i", "e", "d">>,
          <<"l", "i", "c", "e", "n", "s", "e", "d">>,
          <<"q", "u", "a", "l", "i", "t", "y">>,
          <<"e", "x", "p", "e", "r", "i", "e", "n", "c", "e">>>>,
     friendly |->
        <<<<"f", "r", "i", "e", "n", "d", "l", "y">>,
          <<"w", "e", "l", "c", "o", "m", "e">>,
          <<"f", "a", "m", "i", "l", "y">>,
          <<"c", "o", "m", "m", "u", "n", "i", "t", "y">>,
          <<"c", "a", "r", "i", "n", "g">>,
          <<"p", "e", "r", "s", "o", "n", "a", "l">>,
          <<"w", "a", "r", "m">>>>,
     casual |->
        <<<<"f", "u", "n">>,
          <<"e", "a", "s", "y">>,
          <<"s", "i", "m", "p", "l", "e">>,
          <<"r", "e", "l", "a", "x", "e", "d">>,
          <<"c", "o", "m", "f", "o", "r", "t", "a", "b", "l", "e">>,
          <<"l", "a", "i", "d", "-", "b", "a", "c", "k">>,
          <<"c", "h", "i", "l", "l">>>>,
     premium |->
        <<<<"l", "u", "x", "u", "r", "y">>,
          <<"p", "r", "e", "m", "i", "u", "m">>,
          <<"e", "x", "c", "l", "u", "s", "i", "v", "e">>,
          <<"h", "i", "g", "h", "-", "e", "n", "d">>,
          <<"e", "l", "i", "t", "e">>,
          <<"s", "o", "p", "h", "i", "s", "t", "i", "c", "a", "t", "e", "d">>,
          <<"u", "p", "s", "c", "a", "l", "e">>>>]

\* keyword in text
Occurs(keyword, text) ==
    \E i \in 1..(Len(text) - Len(keyword) + 1) :
        \A j \in 1..Len(keyword) : text[i + j - 1] = keyword[j]

\* sum(1 for keyword in keywords if keyword in text)
Score(keywords, text) ==
    Cardinality({k \in 1..Len(keywords) : Occurs(keywords[k], text)})

\* str.lower on the letters the texts use.
UpperLetters == <<"C", "G", "R", "S">>
LowerLetters == <<"c", "g", "r", "s">>

LowerChar(c) ==
    IF \E k \in 1..Len(UpperLetters) : UpperLetters[k] = c
    THEN LowerLetters[CHOOSE k \in 1..Len(UpperLetters) : UpperLetters[k] = c]
    ELSE c

Lower(text) == [i \in 1..Len(text) |-> LowerChar(text[i])]

\* ' '.join(services)
RECURSIVE JoinWithSpaces(_)
JoinWithSpaces(words) ==
    IF words = <<>> THEN <<>>
    ELSE IF Len(words) = 1 THEN words[1]
    ELSE words[1] \o <<" ">> \o JoinWithSpaces(Tail(words))

\* A max that keeps the last of the keys with the highest score.
PyMaxLast(keys, score) ==
    keys[CHOOSE i \in 1..Len(keys) :
            /\ \A j \in 1..Len(keys) : score[keys[j]] <= score[keys[i]]
            /\ \A j \in (i + 1)..Len(keys) : score[keys[j]] < score[keys[i]]]

\* max(scores, key=scores.get) over the keys in insertion order: the first
\* of the keys with the highest score.
PyMax(keys, score) ==
    keys[CHOOSE i \in 1..Len(keys) :
            /\ \A j \in 1..Len(keys) : score[keys[j]] <= score[keys[i]]
            /\ \A j \in 1..(i - 1) : score[keys[j]] < score[keys[i]]]

\* The scores of all buckets of a keyword table over a text.
Scores(table, text) == [b \in DOMAIN table |-> Score(table[b], text)]

\* The dict of the buckets with a score above 0, as its keys in insertion
\* order.
Scored(order, score) == SelectSeq(order, LAMBDA b : score[b] > 0)

IndustryText(text, services) == text \o <<" ">> \o Lower(JoinWithSpaces(services))

\* A classifier that calls a text general unless a bucket scores twice.
ClassifyIndustryAboveOne(text, services) ==
    LET score == Scores(industry_keywords, IndustryText(text, services))
        industry_scores == SelectSeq(IndustryOrder, LAMBDA b : score[b] > 1)
    IN IF industry_scores # <<>> THEN PyMax(industry_scores, score) ELSE "general"

\* BusinessAnalyzer._classify_industry
ClassifyIndustry(text, services) ==
    LET score == Scores(industry_keywords, IndustryText(text, services))
        industry_scores == Scored(IndustryOrder, score)
    IN IF industry_scores # <<>> THEN PyMax(industry_scores, score) ELSE "general"

\* BusinessAnalyzer._analyze_tone
AnalyzeTone(text) ==
    LET score == Scores(tone_indicators, text)
        tone_scores == Scored(ToneOrder, score)
    IN IF tone_scores # <<>> THEN PyMax(tone_scores, score) ELSE "professional"

\* An analyzer whose fallback profile leaves industry and tone unset.
AnalyzeWebsiteUnsetFallback(url, fetched) ==
    IF fetched.kind = "raised"
    THEN [website_url |-> url, industry |-> None, tone_of_voice |-> None,
          services |-> <<>>, error |-> TRUE]
    ELSE LET full_text == Lower(fetched.text)
         IN [website_url |-> url,
             industry |-> ClassifyIndustry(full_text, fetched.services),
             tone_of_voice |-> AnalyzeTone(full_text),
             services |-> fetched.services, error |-> FALSE]

\* BusinessAnalyzer.analyze_website.  `fetched` is what the try block met:
\* a page, or an exception raised while fetching or parsing, which the
\* except branch turns into the fallback profile.
AnalyzeWebsite(url, fetched) ==
    IF fetched.kind = "raised"
    THEN [website_url |-> url, industry |-> "general",
          tone_of_voice |-> "professional", services |-> <<>>, error |-> TRUE]
    ELSE LET full_text == Lower(fetched.text)
         IN [website_url |-> url,
             industry |-> ClassifyIndustry(full_text, fetched.services),
             tone_of_voice |-> AnalyzeTone(full_text),
             services |-> fetched.services, error |-> FALSE]

\* Longest page text, in words, and longest list of services.
MaxWords == 2
MaxServices == 1

\* The words and phrases page texts are made of: keywords of one bucket
\* (one capitalised), of two buckets
\* ("training": fitness and education; "health club": fitness and
\* entertainment), a word that holds a keyword of another table inside it
\* ("caring" holds "car"), a phrase with keywords of two tones, and a word
\* without any keyword.
Vocabulary ==
    {<<"G", "y", "m">>,
     <<"t", "r", "a", "i", "n", "i", "n", "g">>,
     <<"c", "a", "r", "i", "n", "g">>,
     <<"h", "e", "a", "l", "t", "h", " ", "c", "l", "u", "b">>,
     <<"s", "a", "l", "o", "n">>,
     <<"s", "c", "h", "o", "o", "l">>,
     <<"f", "r", "i", "e", "n", "d", "l", "y", " ", "e", "x", "p", "e", "r", "t">>,
     <<"l", "u", "x", "u", "r", "y">>,
     <<"h", "e", "l", "l", "o">>}

ServiceNames ==
    {<<"S", "p", "a">>,
     <<"C", "a", "r", " ", "R", "e", "p", "a", "i", "r">>}

RECURSIVE TextsOf(_)
TextsOf(n) ==
    IF n = 0 THEN {<<>>}
    ELSE TextsOf(n - 1) \cup
         {IF t = <<>> THEN w ELSE t \o <<" ">> \o w :
              t \in TextsOf(n - 1) \ {<<>>}, w \in Vocabulary} \cup Vocabulary

Texts == TextsOf(MaxWords)

ServiceLists == SeqsUpTo(ServiceNames, MaxServices)

Fetches ==
    {[kind |-> "raised"]} \cup
    {[kind |-> "page", text |-> t, services |-> s] : t \in Texts, s \in ServiceLists}

InitSite ==
    /\ site_in \in {[url |-> "example.com", fetched |-> f] : f \in Fetches}
    /\ site_out = NoResult
    /\ IdleSched /\ IdleGen /\ IdleTags /\ IdleApp /\ IdleHelp
    /\ IdleFrame /\ IdleRace

CallAnalyzeWebsite ==
    /\ site_out = NoResult
    /\ site_out' = [kind |-> "returned",
                    profile |-> AnalyzeWebsite(site_in.url, site_in.fetched)]
    /\ UNCHANGED <<site_in, schedVars, genVars, tagVars, appVars, helpVars, frameVars, raceVars>>

NextSite == CallAnalyzeWebsite

SpecSite == InitSite /\ [][NextSite]_vars

\* The page analysed, the text each classifier read and the scores it gave.
SitePage == site_out # NoResult /\ site_in.fetched.kind = "page"

SiteIndustryScores ==
    Scores(industry_keywords,
           IndustryText(Lower(site_in.fetched.text), site_in.fetched.services))

SiteToneScores == Scores(tone_indicators, Lower(site_in.fetched.text))

\* Bucket `b` has the highest score and is the earliest bucket of `order`
\* to have it.
EarliestMaximum(b, order, score) ==
    \E i \in 1..Len(order) :
        /\ order[i] = b
        /\ \A j \in 1..Len(order) : score[order[j]] <= score[b]
        /\ \A j \in 1..(i - 1) : score[order[j]] < score[b]

\* C11: when some industry bucket scores above 0, the industry returned is
\* a bucket with the highest score over all nine buckets and, among the
\* buckets sharing that score, the earliest in the order fitness to
\* entertainment; the tone returned is the same over professional, friendly,
\* casual, premium.
C11_ClassifierPicksEarliestMaximum ==
    SitePage =>
        /\ (\E b \in Range(IndustryOrder) : SiteIndustryScores[b] > 0) =>
               EarliestMaximum(site_out.profile.industry, IndustryOrder,
                               SiteIndustryScores)
        /\ EarliestMaximum(site_out.profile.tone_of_voice, ToneOrder, SiteToneScores)

\* Two industry buckets share the highest score, two tone buckets share the
\* highest tone score, and in both the earlier bucket was returned.
C11_Witness ==
    /\ SitePage
    /\ LET score == SiteIndustryScores
           industry == site_out.profile.industry
       IN /\ industry \in Range(IndustryOrder)
          /\ \E b \in Range(IndustryOrder) \ {industry} : score[b] = score[industry]
    /\ LET score == SiteToneScores
           tone == site_out.profile.tone_of_voice
       IN /\ score[tone] > 0
          /\ \E b \in Range(ToneOrder) \ {tone} : score[b] = score[tone]

\* C12: a text in which no industry keyword occurs is classified general
\* and one in which no tone keyword occurs professional; general is
\* returned only when every industry bucket scores 0.
C12_GeneralExactlyWhenNoKeyword ==
    SitePage =>
        /\ (site_out.profile.industry = "general") <=>
               (\A b \in Range(IndustryOrder) : SiteIndustryScores[b] = 0)
        /\ (\A b \in Range(ToneOrder) : SiteToneScores[b] = 0) =>
               site_out.profile.tone_of_voice = "professional"

\* A page with words but no keyword of any bucket was classified.
C12_Witness ==
    /\ SitePage
    /\ site_in.fetched.text # <<>>
    /\ \A b \in Range(IndustryOrder) : SiteIndustryScores[b] = 0
    /\ \A b \in Range(ToneOrder) : SiteToneScores[b] = 0
    /\ site_out.profile.industry = "general"

\* The closed enums of a profile.
Industries == Range(IndustryOrder) \cup {"general"}
Tones == Range(ToneOrder)

\* C13: analyze_website always returns a profile, after a page was read and
\* after fetching or parsing raised alike, and the profile's industry and
\* tone_of_voice are values of the closed enums.
C13_ProfileWithinEnums ==
    site_out # NoResult =>
        /\ site_out.kind = "returned"
        /\ site_out.profile.industry \in Industries
        /\ site_out.profile.tone_of_voice \in Tones

\* The fallback profile was returned after fetching or parsing raised.
C13_Witness ==
    /\ site_out # NoResult
    /\ site_in.fetched.kind = "raised"
    /\ site_out.profile.error

(***************************************************************************)
(* Posting days of create_weekly_schedule (SpecSched).                     *)
(***************************************************************************)
\* The list the claim names for a frequency.
NamedDefaultDays(frequency) ==
    IF frequency <= 3 THEN <<"monday", "wednesday", "friday">>
    ELSE IF 3 < frequency /\ frequency <= 5
    THEN <<"monday", "tuesday", "thursday", "friday", "saturday">>
    ELSE WeekOrder

\* C14: called with an empty preferredDays list, the scheduler works with
\* [monday, wednesday, friday] when frequency <= 3, with [monday, tuesday,
\* thursday, friday, saturday] when 3 < frequency <= 5 and with all seven
\* days otherwise: its posting days and its schedule are those of a call
\* that names that list, with the same posts and start date; for frequency 3
\* that call is the one with [monday, wednesday, friday].
C14_EmptyPreferredDaysUsesDefaults ==
    (sched_out.kind = "returned" /\ sched_in.preferred_days = <<>>) =>
        LET named == NamedDefaultDays(sched_in.frequency) IN
        /\ PostingDays(<<>>, sched_in.frequency)
               = PostingDays(named, sched_in.frequency)
        /\ sched_out.schedule
               = BuildSchedule(sched_in.posts, sched_in.frequency, named,
                               sched_out.start)
        /\ sched_in.frequency = 3 => named = <<"monday", "wednesday", "friday">>

\* Three posts were scheduled with frequency 3 and no preferred days, on
\* monday, wednesday and friday.
C14_Witness ==
    /\ sched_out.kind = "returned"
    /\ sched_in.preferred_days = <<>>
    /\ sched_in.frequency = 3
    /\ Len(sched_in.posts) = 3
    /\ FilledDays(sched_out.schedule) = {"monday", "wednesday", "friday"}
    /\ sched_out.schedule["friday"].post = sched_in.posts[3]

\* Position of a day in monday..sunday.
WeekIndex(day) == CHOOSE i \in 1..7 : WeekOrder[i] = day

\* A non-empty list of distinct names of days.
DistinctValidDays(list) ==
    /\ list # <<>>
    /\ Range(list) \subseteq Range(WeekOrder)
    /\ \A i, j \in DOMAIN list : i # j => list[i] # list[j]

SchedPostingDays == PostingDays(sched_in.preferred_days, sched_in.frequency)

\* C15: for 1 <= frequency <= 7 and a non-empty preferredDays list of
\* distinct valid day names, postingDays has exactly frequency entries: the
\* first min(frequency, |preferredDays|) preferred days in their order, and
\* after them, one by one, the earliest day of monday..sunday not yet in the
\* list.
C15_PostingDaysToppedUpInWeekOrder ==
    (/\ SchedCalled
     /\ 1 <= sched_in.frequency /\ sched_in.frequency <= 7
     /\ DistinctValidDays(sched_in.preferred_days)) =>
        LET pd == SchedPostingDays
            kept == Min(sched_in.frequency, Len(sched_in.preferred_days))
        IN /\ Len(pd) = sched_in.frequency
           /\ \A i \in 1..kept : pd[i] = sched_in.preferred_days[i]
           /\ \A i \in (kept + 1)..Len(pd) :
                 LET before == {pd[j] : j \in 1..(i - 1)} IN
                 /\ pd[i] \in Range(WeekOrder) \ before
                 /\ \A day \in Range(WeekOrder) \ before :
                       WeekIndex(pd[i]) <= WeekIndex(day)

\* Two preferred days, the second of them monday, were topped up to four
\* posting days with the next two free days of the week.
C15_Witness ==
    /\ sched_out.kind = "returned"
    /\ sched_in.frequency = 4
    /\ sched_in.preferred_days = <<"tuesday", "monday">>
    /\ SchedPostingDays = <<"tuesday", "monday", "wednesday", "thursday">>
    /\ Len(sched_in.posts) = 3
    /\ sched_out.schedule["wednesday"].post = sched_in.posts[3]

(***************************************************************************)
(* Post types of generate_posts (SpecGen).                                 *)
(***************************************************************************)
\* C16: for frequency N >= 1 and preferred type list P, the posts returned
\* are N posts whose types are, in order, P'[i mod |P'|] for i = 0..N-1,
\* where P' is P when P is non-empty and [promo, tip, update] when P is
\* empty: the order of P is kept and nothing is shuffled.
C16_PostTypesCycleInOrder ==
    (gen_out.kind = "returned" /\ gen_in.frequency >= 1) =>
        LET P == PreferredTypes(gen_in)
            Pd == IF P = <<>> THEN <<"promo", "tip", "update">> ELSE P
        IN /\ Len(gen_out.posts) = gen_in.frequency
           /\ \A i \in 0..(gen_in.frequency - 1) :
                 gen_out.posts[i + 1].post_type = Pd[(i % Len(Pd)) + 1]

\* Three posts were generated from the list [tip, promo]: tip, promo, tip.
C16_Witness ==
    /\ gen_out.kind = "returned"
    /\ gen_in.frequency = 3
    /\ gen_in.has_post_types
    /\ gen_in.post_types = <<"tip", "promo">>
    /\ [i \in 1..3 |-> gen_out.posts[i].post_type] = <<"tip", "promo", "tip">>

(***************************************************************************)
(* SpecHelp: ContentGenerator._estimate_engagement and _suggest_best_time  *)
(* applied to bounded arguments.                                           *)
(*                                                                         *)
(* A tone multiplier is a float literal with one decimal; it is kept as    *)
(* its number of tenths.  int(base * multiplier) is computed as IEEE 754   *)
(* binary64 arithmetic computes it: the literal is the double nearest to   *)
(* tenths/10, the product is rounded to the nearest double and int()       *)
(* truncates.  Everything is done on small integers: with                  *)
(*     tenths * 2^K = 10 * M + rm   (K = 52 - exponent of the literal),    *)
(* the literal's double is tenths/10 + d * 2^-K / 10 for d = -rm or        *)
(* 10 - rm, whichever is nearer 0, and the rounded product of an integer   *)
(* base with it lies below the whole number base * tenths / 10 exactly     *)
(* when that number is whole and base * d < -5 * 2^s, s being the          *)
(* difference of the exponents of product and literal.                     *)
(***************************************************************************)
RECURSIVE Pow2(_)
Pow2(k) == IF k = 0 THEN 1 ELSE 2 * Pow2(k - 1)

\* 2^k mod 10
Pow2Mod10(k) == IF k = 0 THEN 1 ELSE <<2, 4, 8, 6>>[((k - 1) % 4) + 1]

\* floor(log2(T / 10)) for a positive number of tenths T.
Exponent(T) ==
    IF T >= 10
    THEN CHOOSE j \in 0..16 : 10 * Pow2(j) <= T /\ T < 10 * Pow2(j + 1)
    ELSE 0 - (CHOOSE j \in 1..4 : 10 <= T * Pow2(j) /\ T * Pow2(j - 1) < 10)

\* The double of the literal tenths/10 is tenths/10 + d * 2^-K / 10.
LiteralError(tenths) ==
    LET K == 52 - Exponent(tenths)
        rm == (tenths * Pow2Mod10(K)) % 10
    IN IF rm < 5 THEN 0 - rm ELSE 10 - rm

\* An int() that rounds the product to the nearest whole number.
IntOfProductRounded(base, tenths) == (base * tenths + 5) \div 10

\* int(base * multiplier)
IntOfProduct(base, tenths) ==
    LET T == base * tenths
        d == LiteralError(tenths)
        E == IF T = 10 * Pow2(Exponent(T)) /\ d < 0 THEN Exponent(T) - 1
             ELSE Exponent(T)
        s == E - Exponent(tenths)
    IN IF T % 10 = 0 /\ base * d < (0 - 5) * Pow2(s)
       THEN (T \div 10) - 1
       ELSE T \div 10

\* base_scores.get(post_type, {'likes': 50, 'comments': 10, 'shares': 15})
BaseScores(post_type) ==
    CASE post_type = "promo" -> [likes |-> 45, comments |-> 8, shares |-> 12]
      [] post_type = "tip" -> [likes |-> 65, comments |-> 15, shares |-> 25]
      [] post_type = "update" -> [likes |-> 35, comments |-> 6, shares |-> 8]
      [] post_type = "insight" -> [likes |-> 55, comments |-> 12, shares |-> 20]
      [] OTHER -> [likes |-> 50, comments |-> 10, shares |-> 15]

\* tone_multipliers.get(tone, 1.0), in tenths.
ToneMultiplier(tone) ==
    CASE tone = "friendly" -> 12
      [] tone = "casual" -> 11
      [] tone = "professional" -> 10
      [] tone = "premium" -> 9
      [] OTHER -> 10

\* A label that is high from 1.1 on.
EngagementScoreFrom(multiplier) == IF multiplier >= 11 THEN "high" ELSE "medium"

\* 'high' if multiplier > 1.1 else 'medium'.  Both sides are doubles of
\* one-decimal literals, which are ordered as their tenths are.
EngagementScore(multiplier) == IF multiplier > 11 THEN "high" ELSE "medium"

\* _estimate_engagement
EstimateEngagement(post_type, tone) ==
    LET base == BaseScores(post_type)
        multiplier == ToneMultiplier(tone)
    IN [estimated_likes |-> IntOfProduct(base.likes, multiplier),
        estimated_comments |-> IntOfProduct(base.comments, multiplier),
        estimated_shares |-> IntOfProduct(base.shares, multiplier),
        engagement_score |-> EngagementScore(multiplier)]

\* The post types and tones the helpers are called with: those with
\* templates and one of each without.
HelpTypes == TemplateTypes \cup {"poll"}
HelpTones == TemplateTones \cup {"witty"}

\* The industries of a business profile.
HelpIndustries == Industries

HelpInputs ==
    [fn : {"_estimate_engagement"}, post_type : HelpTypes, tone : HelpTones]
    \cup [fn : {"_suggest_best_time"}, industry : HelpIndustries, post_type : HelpTypes]

InitHelp ==
    /\ help_in \in HelpInputs
    /\ help_out = NoResult
    /\ IdleSched /\ IdleGen /\ IdleTags /\ IdleApp /\ IdleSite
    /\ IdleFrame /\ IdleRace

CallEstimateEngagement ==
    /\ help_out = NoResult
    /\ help_in.fn = "_estimate_engagement"
    /\ help_out' = EstimateEngagement(help_in.post_type, help_in.tone)
    /\ UNCHANGED <<help_in, schedVars, genVars, tagVars, appVars, siteVars,
                 frameVars, raceVars>>

CallSuggestBestTime ==
    /\ help_out = NoResult
    /\ help_in.fn = "_suggest_best_time"
    /\ help_out' = [best_time_to_post |->
                        SuggestBestTime(help_in.industry, help_in.post_type)]
    /\ UNCHANGED <<help_in, schedVars, genVars, tagVars, appVars, siteVars,
                 frameVars, raceVars>>

NextHelp == CallEstimateEngagement \/ CallSuggestBestTime

SpecHelp == InitHelp /\ [][NextHelp]_vars

EngagementEstimated == help_out # NoResult /\ help_in.fn = "_estimate_engagement"

\* floor(base x tenths / 10)
FloorOfProduct(base, tenths) == (base * tenths) \div 10

\* C17: likes, comments and shares of the estimate are floor(base x
\* multiplier), with bases promo (45,8,12), tip (65,15,25), update (35,6,8),
\* insight (55,12,20), any other type (50,10,15) and multipliers friendly
\* 1.2, casual 1.1, professional 1.0, premium 0.9, any other tone 1.0; a
\* friendly tip gets likes 78, comments 18, shares 30.
C17_EngagementIsFloorOfProduct ==
    EngagementEstimated =>
        LET base == CASE help_in.post_type = "promo" -> <<45, 8, 12>>
                      [] help_in.post_type = "tip" -> <<65, 15, 25>>
                      [] help_in.post_type = "update" -> <<35, 6, 8>>
                      [] help_in.post_type = "insight" -> <<55, 12, 20>>
                      [] OTHER -> <<50, 10, 15>>
            tenths == CASE help_in.tone = "friendly" -> 12
                        [] help_in.tone = "casual" -> 11
                        [] help_in.tone = "premium" -> 9
                        [] OTHER -> 10
        IN /\ help_out.estimated_likes = FloorOfProduct(base[1], tenths)
           /\ help_out.estimated_comments = FloorOfProduct(base[2], tenths)
           /\ help_out.estimated_shares = FloorOfProduct(base[3], tenths)
           /\ (help_in.post_type = "tip" /\ help_in.tone = "friendly") =>
                  /\ help_out.estimated_likes = 78
                  /\ help_out.estimated_comments = 18
                  /\ help_out.estimated_shares = 30

\* The estimate of a friendly tip: 78 likes, a whole product (65 x 1.2)
\* whose double must not fall below it.
C17_Witness ==
    /\ EngagementEstimated
    /\ help_in.post_type = "tip"
    /\ help_in.tone = "friendly"
    /\ help_out.estimated_likes = 78
    /\ help_out.estimated_shares = 30

\* C18: over all post types and all tones, known or not, the engagement
\* score is high if and only if the tone is friendly, the one tone whose
\* multiplier is strictly greater than 1.1; casual, at 1.1, is medium.
C18_HighOnlyForFriendly ==
    EngagementEstimated =>
        /\ help_out.engagement_score \in {"high", "medium"}
        /\ help_out.engagement_score = "high" <=> help_in.tone = "friendly"
        /\ help_in.tone = "casual" => help_out.engagement_score = "medium"

\* A casual post was estimated and labelled medium.
C18_Witness ==
    /\ EngagementEstimated
    /\ help_in.tone = "casual"
    /\ help_out.engagement_score = "medium"
    /\ help_out.estimated_likes > BaseScores(help_in.post_type).likes

BestTimeSuggested == help_out # NoResult /\ help_in.fn = "_suggest_best_time"

\* The day-part tables and the day-part each post type prefers, as the claim
\* gives them.
DayPartTable(industry) ==
    CASE industry = "fitness" -> [morning |-> "6:00 AM", evening |-> "6:00 PM"]
      [] industry = "beauty" -> [afternoon |-> "2:00 PM", evening |-> "7:00 PM"]
      [] industry = "food" -> [lunch |-> "11:30 AM", dinner |-> "5:30 PM"]
      [] OTHER -> [morning |-> "9:00 AM", afternoon |-> "3:00 PM"]

PreferredDayPart(post_type) ==
    CASE post_type \in {"promo", "insight"} -> "afternoon"
      [] post_type \in {"tip", "update"} -> "morning"

\* C19: the suggested time for (industry, post type) is the entry of the
\* industry's day-part table (the general one unless the industry is
\* fitness, beauty or food) for the day-part the post type prefers (promo
\* and insight afternoon, tip and update morning), and 12:00 PM when the
\* table has no such day-part; food gets 12:00 PM for every post type.
C19_BestTimeFromDayPartTable ==
    (BestTimeSuggested /\ help_in.post_type \in TemplateTypes) =>
        LET table == DayPartTable(help_in.industry)
            part == PreferredDayPart(help_in.post_type)
        IN /\ help_out.best_time_to_post =
                  IF part \in DOMAIN table THEN table[part] ELSE "12:00 PM"
           /\ help_in.industry = "food" => help_out.best_time_to_post = "12:00 PM"

\* A promo post of a fitness business, whose table has no afternoon, was
\* given 12:00 PM.
C19_Witness ==
    /\ BestTimeSuggested
    /\ help_in.industry = "fitness"
    /\ help_in.post_type = "promo"
    /\ help_out.best_time_to_post = "12:00 PM"

\* The values the post at position i of the call was formatted with.
GenSuppliedValues(i) ==
    IF GenRequestedTypes[i] = "insight" /\ gen_in.industry_news # <<>>
    THEN {"business_name", "insight_content", "call_to_action"}
    ELSE StandardContentVars(GenRequestedTypes[i])

\* C20: with a valid tone and valid post types the call returns a post for
\* every position whichever template was drawn; a template that names a
\* slot without supplied value is never what the content was formatted
\* from: the content is then the generic sentence "Great news from
\* <business name>! <offer, when there is one> <call to action>".
C20_MissingSlotGivesGenericSentence ==
    (/\ gen_out # NoResult
     /\ gen_in.tone \in TemplateTones
     /\ Range(GenRequestedTypes) \subseteq TemplateTypes) =>
        /\ gen_out.kind = "returned"
        /\ Len(gen_out.posts) = Len(GenRequestedTypes)
        /\ \A i \in DOMAIN gen_out.posts :
              LET content == gen_out.posts[i].content IN
              /\ content.kind \in {"template", "fallback"}
              /\ content.kind = "template" =>
                     /\ content.slots \subseteq GenSuppliedValues(i)
                     /\ content.slots \in
                            Range(TemplateSlots(GenRequestedTypes[i], gen_in.tone))
              /\ content.kind = "fallback" =>
                     /\ content.sentence = "Great news from"
                     /\ content.offer = (GenRequestedTypes[i] = "promo")
                     /\ \E t \in 1..3 :
                           ~(TemplateSlots(GenRequestedTypes[i], gen_in.tone)[t]
                                 \subseteq GenSuppliedValues(i))

\* A professional tip was generated from the template that names
\* {industry}, which no value is supplied for.
C20_Witness ==
    /\ gen_out.kind = "returned"
    /\ gen_in.tone = "professional"
    /\ \E i \in DOMAIN gen_out.posts :
          /\ GenRequestedTypes[i] = "tip"
          /\ gen_out.posts[i].content.kind = "fallback"
          /\ "industry" \in TemplateSlots("tip", "professional")[3]

(***************************************************************************)
(* create_weekly_schedule over objects: which lists and dicts a call       *)
(* writes.  The heap maps an object's name to its value; a list of posts   *)
(* holds the names of its post dicts.                                      *)
(***************************************************************************)
\* The names of the post dicts of a caller's list.
PostNames == <<"post1", "post2", "post3", "post4", "post5", "post6">>

\* A slice that hands back the list itself when nothing is cut off.
SliceToShared(h, list, n, new) ==
    IF PySlice(h[list], n) = h[list] THEN [heap |-> h, ref |-> list]
    ELSE [heap |-> (new :> PySlice(h[list], n)) @@ h, ref |-> new]

\* list[:n]: a new list object, named `new`, with the first n elements.
SliceTo(h, list, n, new) ==
    [heap |-> (new :> PySlice(h[list], n)) @@ h, ref |-> new]

\* list.extend(items): the object itself grows.
Extend(h, list, items) == [h EXCEPT ![list] = @ \o items]

\* "if not preferred_days": the list the name preferred_days is bound to
\* afterwards.  A default for a frequency up to 5 is a new list, the default
\* above 5 is the generator's own self.days.
BindPreferredDays(h, preferred_days, frequency) ==
    IF preferred_days = None \/ h[preferred_days] = <<>>
    THEN IF frequency <= 5
         THEN [heap |-> ("default_days" :> DefaultDays(frequency)) @@ h,
               ref |-> "default_days"]
         ELSE [heap |-> h, ref |-> "self.days"]
    ELSE [heap |-> h, ref |-> preferred_days]

\* The schedule dict: a filled slot refers to the caller's post dict.
ScheduleOnHeap(h, post_list, posting_days, start) ==
    [day \in Range(h["self.days"]) |->
        LET i == IndexOf(h["self.days"], day) IN
        IF SlotFilled(day, h[posting_days], h[post_list])
        THEN LET post == h[post_list][IndexOf(h[posting_days], day)] IN
             [date |-> SlotDate(start, i), post |-> post,
              suggested_time |-> SuggestedTime(h[post]), day_of_week |-> Title(day)]
        ELSE [date |-> SlotDate(start, i), post |-> None,
              suggested_time |-> None, day_of_week |-> Title(day)]]

\* The whole call on the heap h; the arguments posts and preferred_days are
\* names of objects (preferred_days may be None).  Returns the heap after the
\* call and the name of the schedule dict, or raises without writing.
CreateWeeklyScheduleOnHeap(h, post_list, frequency, preferred_days, start_date, today) ==
    IF start_date # NoDate /\ ~IsValidDate(start_date)
    THEN [kind |-> "ValueError", heap |-> h]
    ELSE LET start == IF start_date # NoDate THEN ToOrdinal(start_date)
                      ELSE ToOrdinal(today)
             bound == BindPreferredDays(h, preferred_days, frequency)
             sliced == SliceTo(bound.heap, bound.ref, frequency, "posting_days")
             posting_days == sliced.ref
             short == Len(sliced.heap[posting_days]) < frequency
             remaining_days ==
                 SelectSeq(sliced.heap["self.days"],
                           LAMBDA day : day \notin Range(sliced.heap[posting_days]))
             extended ==
                 IF short
                 THEN Extend(sliced.heap, posting_days,
                             PySlice(remaining_days,
                                     frequency - Len(sliced.heap[posting_days])))
                 ELSE sliced.heap
             schedule == ScheduleOnHeap(extended, post_list, posting_days, start)
         IN [kind |-> "returned", heap |-> ("schedule" :> schedule) @@ extended,
             schedule |-> "schedule"]

\* The caller's objects before the call: the generator's day list, the list
\* of posts with its post dicts and, when one is passed, the list of
\* preferred days.
CallerHeap(post_list, passed, preferred_days) ==
    LET fixed == ("self.days" :> Days)
                 @@ ("posts" :> [k \in DOMAIN post_list |-> PostNames[k]])
                 @@ [name \in {PostNames[k] : k \in DOMAIN post_list} |->
                        post_list[IndexOf(PostNames, name)]]
    IN IF passed THEN ("preferred_days" :> preferred_days) @@ fixed
       ELSE fixed

FrameStartDates == {<<2025, 2, 30>>, NoDate}

\* A call that passes one of the lists of PrefLists as preferred_days, or
\* passes none.
InitFrame ==
    /\ \E post_list \in PostLists, frequency \in Frequencies, passed \in BOOLEAN,
          preferred_days \in PrefLists, start_date \in FrameStartDates :
         /\ ~passed => preferred_days = <<>>
         /\ heap = CallerHeap(post_list, passed, preferred_days)
         /\ sched_in = [posts |-> "posts", frequency |-> frequency,
                        preferred_days |-> IF passed THEN "preferred_days" ELSE None,
                        start_date |-> start_date]
    /\ sched_out = NoResult
    /\ IdleGen /\ IdleTags /\ IdleApp /\ IdleSite /\ IdleHelp /\ IdleRace

\* The call returns the name of its schedule dict, or raises.
CallCreateWeeklyScheduleOnHeap ==
    /\ sched_out = NoResult
    /\ LET out == CreateWeeklyScheduleOnHeap(heap, sched_in.posts, sched_in.frequency,
                                             sched_in.preferred_days,
                                             sched_in.start_date, Today)
       IN /\ heap' = out.heap
          /\ sched_out' = IF out.kind = "returned"
                          THEN [kind |-> "returned", schedule |-> out.schedule]
                          ELSE [kind |-> out.kind]
    /\ UNCHANGED <<sched_in, genVars, tagVars, appVars, siteVars, helpVars, raceVars>>

NextFrame == CallCreateWeeklyScheduleOnHeap

SpecFrame == InitFrame /\ [][NextFrame]_vars

\* C21: create_weekly_schedule modifies none of its inputs and no generator
\* state: every object that existed before the call (the posts list, each
\* post dict, the caller's preferred_days list, self.days) has the value it
\* had, whether the call returns or raises, also when posting_days is
\* extended and when the all-seven-days default is used.
C21_CallWritesNoCallerObject ==
    [][\A object \in DOMAIN heap :
          object \in DOMAIN heap' /\ heap'[object] = heap[object]]_vars

\* A call returned whose list of two preferred days was topped up to three
\* posting days, the caller's list still holding its two days.
C21_Witness ==
    /\ sched_out.kind = "returned"
    /\ sched_in.preferred_days = "preferred_days"
    /\ Len(heap["preferred_days"]) = 2
    /\ Len(heap["posting_days"]) = 3
    /\ Len(heap["posts"]) = 3
    /\ heap["schedule"]["wednesday"].post = heap["posts"][3]

\* C25: for 1 <= frequency <= 7, at least frequency posts and a preferredDays
\* list of valid lowercase day names (empty, shorter or longer than
\* frequency, with or without repeats), exactly frequency slots of the
\* schedule hold a post, and they hold posts[0..frequency-1], each once.
C25_FirstPostsEachPlacedOnce ==
    (/\ sched_out.kind = "returned"
     /\ sched_in.frequency \in 1..7
     /\ Len(sched_in.posts) >= sched_in.frequency
     /\ Range(sched_in.preferred_days) \subseteq Range(WeekOrder))
    => LET schedule == sched_out.schedule IN
       /\ Cardinality(FilledDays(schedule)) = sched_in.frequency
       /\ \A k \in 1..sched_in.frequency :
             Cardinality({day \in FilledDays(schedule) :
                             schedule[day].post = sched_in.posts[k]}) = 1

(***************************************************************************)
(* Requests handled at the same time.  The server handles each request in  *)
(* a thread of its own, and DataStorage keeps no lock: every storage call  *)
(* reads the whole of data/posts.json and, to write, saves the whole dict  *)
(* it read.  One step of a thread is one read or one write of the file     *)
(* together with the code up to the thread's next access (a read or write  *)
(* is taken as atomic, which leaves out the torn reads of a file that is   *)
(* being rewritten).  The storage directory outlives the server, so the    *)
(* server starts with the posts earlier requests stored.                   *)
(***************************************************************************)
MaxThreads == 2

Threads == 1..MaxThreads

IdleThread == [pc |-> "idle", kind |-> "idle"]

\* A post as generate_posts returns it for the profile of business b1.
RacePost == GenerateStandardPost(ProfileIndustry("b1"), "friendly", "promo", 1).post

\* str(uuid.uuid4()) in the thread t: an id no stored post and no other
\* thread has.
NewPostId(t) == MaxStoredPosts + t

InitRace ==
    /\ \E n \in 0..MaxStoredPosts :
         posts = [k \in 1..n |-> StoredPost(RacePost, k, "b1", k)]
    /\ threads = [t \in Threads |-> IdleThread]
    /\ schedules = 0
    /\ clock = 0
    /\ mock_mode = TRUE
    /\ response = NoResult
    /\ IdleSched /\ IdleGen /\ IdleTags /\ IdleSite /\ IdleHelp /\ IdleFrame

\* What no thread step writes.
raceFrame == <<clock, mock_mode, response, schedVars, genVars, tagVars,
               siteVars, helpVars, frameVars>>

\* POST /api/content/generate for one post, up to store_post's read of the
\* file: the thread holds the dict it loaded.
StorePostLoad(t) ==
    /\ threads[t].pc = "idle"
    /\ threads' = [threads EXCEPT ![t] =
                      [pc |-> "store_save", kind |-> "store",
                       post_id |-> NewPostId(t), loaded |-> posts]]
    /\ UNCHANGED <<posts, schedules, raceFrame>>

\* store_post: posts[post_id] = post on the loaded dict, which is saved as the
\* whole file; store_post returns what the save returns, True.
StorePostSave(t) ==
    /\ threads[t].pc = "store_save"
    /\ LET post_id == threads[t].post_id
           post == StoredPost(RacePost, post_id, "b1", post_id)
       IN posts' = (post_id :> post) @@ threads[t].loaded
    /\ threads' = [threads EXCEPT ![t] =
                      [pc |-> "done", kind |-> "store", code |-> 200,
                       post_id |-> threads[t].post_id, result |-> TRUE]]
    /\ UNCHANGED <<schedules, raceFrame>>

\* POST /api/posts/<post_id>/publish with credentials, up to get_post: 404
\* for an unknown id; otherwise Facebook is called and the thread's copy of
\* the post gets status published.
PublishGetPost(t, post_id, publish_result) ==
    /\ threads[t].pc = "idle"
    /\ LET post == GetPost(post_id) IN
       threads' = [threads EXCEPT ![t] =
          IF post = NoPost
          THEN [pc |-> "done", kind |-> "publish", code |-> 404, post_id |-> post_id]
          ELSE [pc |-> "publish_load", kind |-> "publish", post_id |-> post_id,
                post |-> DictUpdate(post,
                            [status |-> "published",
                             published_at |-> "stamp",
                             facebook_post_id |-> publish_result.post_id])]]
    /\ UNCHANGED <<posts, schedules, raceFrame>>

\* A publish request for a stored post or for an id that is not stored.
PublishRequest(t) ==
    \E post_id \in 1..(MaxStoredPosts + 1), publish_result \in PublishResults :
        PublishGetPost(t, post_id, publish_result)

\* update_post of the publish handler: the read of the file.
PublishUpdateLoad(t) ==
    /\ threads[t].pc = "publish_load"
    /\ threads' = [threads EXCEPT ![t] =
                      [pc |-> "publish_save", kind |-> "publish",
                       post_id |-> threads[t].post_id, post |-> threads[t].post,
                       loaded |-> posts]]
    /\ UNCHANGED <<posts, schedules, raceFrame>>

\* update_post of the publish handler: the loaded dict, with the thread's
\* post merged into it, is saved as the whole file; the handler answers 200.
PublishUpdateSave(t) ==
    /\ threads[t].pc = "publish_save"
    /\ posts' = IF threads[t].post_id \in DOMAIN threads[t].loaded
                THEN UpdatePostIn(threads[t].loaded, threads[t].post_id, threads[t].post)
                ELSE posts
    /\ threads' = [threads EXCEPT ![t] =
                      [pc |-> "done", kind |-> "publish", code |-> 200,
                       post_id |-> threads[t].post_id]]
    /\ UNCHANGED <<schedules, raceFrame>>

\* The posts of the filled slots, in the order the handler's loop meets them,
\* each as the handler passes it to update_post.
RECURSIVE PostsToMark(_, _)
PostsToMark(i, schedule) ==
    IF i > Len(Days) THEN <<>>
    ELSE LET slot == schedule[Days[i]] IN
         IF slot.post = NoPost THEN PostsToMark(i + 1, schedule)
         ELSE <<DictUpdate(slot.post, [status |-> "scheduled",
                                       scheduled_date |-> slot.date])>>
              \o PostsToMark(i + 1, schedule)

\* Where a schedule thread goes when `todo` posts are left to mark.
AfterMark(todo) ==
    IF todo = <<>> THEN [pc |-> "schedule_store", kind |-> "schedule", todo |-> <<>>]
    ELSE [pc |-> "schedule_load", kind |-> "schedule", todo |-> todo]

\* POST /api/planner/schedule up to get_posts_by_business: 400 with too few
\* drafts; otherwise the schedule is built from the drafts just read.
ScheduleGetPosts(t, frequency) ==
    /\ threads[t].pc = "idle"
    /\ LET draft_posts == DraftPosts("b1")
           out == CreateWeeklySchedule(PySlice(draft_posts, frequency), frequency,
                                       <<>>, Today, Today)
       IN threads' = [threads EXCEPT ![t] =
             IF Len(draft_posts) < frequency
             THEN [pc |-> "done", kind |-> "schedule", code |-> 400]
             ELSE AfterMark(PostsToMark(1, out.schedule))]
    /\ UNCHANGED <<posts, schedules, raceFrame>>

\* update_post in the handler's loop: the read of the file.
ScheduleUpdateLoad(t) ==
    /\ threads[t].pc = "schedule_load"
    /\ threads' = [threads EXCEPT ![t] =
                      [pc |-> "schedule_save", kind |-> "schedule",
                       todo |-> threads[t].todo, loaded |-> posts]]
    /\ UNCHANGED <<posts, schedules, raceFrame>>

\* update_post in the handler's loop: the loaded dict, with the post of the
\* slot merged into it, is saved as the whole file.
ScheduleUpdateSave(t) ==
    /\ threads[t].pc = "schedule_save"
    /\ LET post == Head(threads[t].todo) IN
       posts' = IF post.id \in DOMAIN threads[t].loaded
                THEN UpdatePostIn(threads[t].loaded, post.id, post)
                ELSE posts
    /\ threads' = [threads EXCEPT ![t] = AfterMark(Tail(threads[t].todo))]
    /\ UNCHANGED <<schedules, raceFrame>>

\* store_schedule, after the loop; the handler answers 200.
ScheduleStore(t) ==
    /\ threads[t].pc = "schedule_store"
    /\ schedules' = schedules + 1
    /\ threads' = [threads EXCEPT ![t] = [pc |-> "done", kind |-> "schedule", code |-> 200]]
    /\ UNCHANGED <<posts, raceFrame>>

NextRace ==
    \/ \E t \in Threads : StorePostLoad(t)
    \/ \E t \in Threads : StorePostSave(t)
    \/ \E t \in Threads : PublishRequest(t)
    \/ \E t \in Threads : PublishUpdateLoad(t)
    \/ \E t \in Threads : PublishUpdateSave(t)
    \/ \E t \in Threads, frequency \in 1..2 : ScheduleGetPosts(t, frequency)
    \/ \E t \in Threads : ScheduleUpdateLoad(t)
    \/ \E t \in Threads : ScheduleUpdateSave(t)
    \/ \E t \in Threads : ScheduleStore(t)

SpecRace == InitRace /\ [][NextRace]_vars

\* No request of a generate thread is in the behaviour.
OnlyPublishAndSchedule == \A t \in Threads : threads[t].kind # "store"

\* C26: once a post is published it is never draft or scheduled again, in
\* every interleaving of publish and schedule requests handled at the same
\* time.
C26_PublishedStaysPublished ==
    [][OnlyPublishAndSchedule' =>
          \A i \in DOMAIN posts :
              posts[i].status = "published" =>
                  i \in DOMAIN posts' /\ posts'[i].status = "published"]_vars

\* C27: two store_post calls for different ids made at the same time: when
\* both have returned True, both posts are stored.
C27_BothStoredPostsPresent ==
    (\A t \in Threads : /\ threads[t].kind = "store"
                        /\ threads[t].pc = "done"
                        /\ threads[t].result)
    => \A t \in Threads : threads[t].post_id \in DOMAIN posts

(***************************************************************************)
(* The application with the Facebook client in real mode (mock_mode set to *)
(* False, as its constructor's comment asks for real use): publish_post    *)
(* returns success True, or success False after an API error.              *)
(***************************************************************************)
InitReal ==
    /\ posts = <<>>
    /\ schedules = 0
    /\ clock = 0
    /\ mock_mode = FALSE
    /\ response = NoResult
    /\ IdleSched /\ IdleGen /\ IdleTags /\ IdleSite /\ IdleHelp
    /\ IdleFrame /\ IdleRace

SpecReal == InitReal /\ [][Next]_vars

\* The publish response of this step reports a success of the client.
ClientSucceeded ==
    /\ response'.kind = "publish"
    /\ "facebook_result" \in DOMAIN response'
    /\ response'.facebook_result.success

\* C28: a post's status becomes published, and the post gets a published_at,
\* only when the client's result reports success; after a result with
\* success False the stored post keeps its status and gets no published_at.
C28_PublishedOnlyOnSuccess ==
    [][\A i \in DOMAIN posts :
          (\/ posts[i].status # "published" /\ posts'[i].status = "published"
           \/ "published_at" \notin DOMAIN posts[i]
              /\ "published_at" \in DOMAIN posts'[i])
          => ClientSucceeded]_vars

(***************************************************************************)
(* DataStorage.cleanup_old_data.  Time is counted in days: clock is today, *)
(* a created_at stamp is the day of creation (ISO strings of one format    *)
(* compare as their times do).  In this specification schedules holds the  *)
(* created_at stamps of the stored schedules.                              *)
(***************************************************************************)
MaxAge == 2

\* The names the module data_storage binds at import, besides DataStorage.
ModuleNames == {"json", "os", "Dict", "List", "Optional", "datetime", "uuid"}

\* cleanup_old_data(days_old) on the stored posts and schedules at time now:
\* what it returns and what it leaves stored.  The first statement of the
\* try block evaluates the name timedelta; a name the module does not bind
\* raises NameError, which the except clause turns into the returned error.
CleanupOldData(stored_posts, stored_schedules, now, days_old) ==
    IF "timedelta" \notin ModuleNames
    THEN [result |-> [error |-> "name 'timedelta' is not defined"],
          posts |-> stored_posts, schedules |-> stored_schedules]
    ELSE LET cutoff_date == now - days_old
             posts_to_delete ==
                 {post_id \in DOMAIN stored_posts :
                     /\ stored_posts[post_id].status = "draft"
                     /\ stored_posts[post_id].created_at < cutoff_date}
             schedules_to_delete ==
                 {schedule_id \in DOMAIN stored_schedules :
                     stored_schedules[schedule_id] < cutoff_date}
         IN [result |-> [deleted_posts |-> Cardinality(posts_to_delete),
                         deleted_schedules |-> Cardinality(schedules_to_delete),
                         cleanup_completed_at |-> now],
             posts |-> [post_id \in DOMAIN stored_posts \ posts_to_delete |->
                           stored_posts[post_id]],
             schedules |-> [schedule_id \in DOMAIN stored_schedules
                                            \ schedules_to_delete |->
                               stored_schedules[schedule_id]]]

CleanupStatuses == {"draft", "scheduled", "published"}

\* The storage the earlier requests left: up to MaxStoredPosts posts of any
\* status and age, and no schedule or one.
InitCleanup ==
    /\ \E n \in 0..MaxStoredPosts :
         \E status \in [1..n -> CleanupStatuses], created_at \in [1..n -> 0..MaxAge] :
            posts = [k \in 1..n |->
                        DictUpdate(StoredPost(RacePost, k, "b1", created_at[k]),
                                   [status |-> status[k]])]
    /\ schedules \in SeqsUpTo(0..MaxAge, 1)
    /\ clock = MaxAge
    /\ mock_mode = TRUE
    /\ response = NoResult
    /\ IdleSched /\ IdleGen /\ IdleTags /\ IdleSite /\ IdleHelp
    /\ IdleFrame /\ IdleRace

\* One call, with days_old from "everything before today" to "nothing".
CallCleanupOldData ==
    /\ response = NoResult
    /\ \E days_old \in 0..(MaxAge + 1) :
         LET out == CleanupOldData(posts, schedules, clock, days_old)
         IN /\ posts' = out.posts
            /\ schedules' = out.schedules
            /\ response' = [kind |-> "cleanup", days_old |-> days_old,
                            result |-> out.result]
    /\ UNCHANGED <<clock, mock_mode, schedVars, genVars, tagVars, siteVars, helpVars,
                   frameVars, raceVars>>

NextCleanup == CallCleanupOldData

SpecCleanup == InitCleanup /\ [][NextCleanup]_vars

\* C29: after cleanup_old_data(days_old) has returned, no draft post with
\* created_at earlier than now - days_old days is stored, and the returned
\* statistics tell how many posts and schedules were deleted.
C29_NoOldDraftAfterCleanup ==
    response.kind = "cleanup" =>
        /\ \A i \in DOMAIN posts :
              ~(/\ posts[i].status = "draft"
                /\ posts[i].created_at < clock - response.days_old)
        /\ {"deleted_posts", "deleted_schedules"} \subseteq DOMAIN response.result

\* C30: for a frequency of at least 1, a tone with templates and a list of
\* post types with templates (given, empty or left out), with or without
\* news items, generate_posts returns exactly frequency posts and the i-th
\* post has the i-th type of the round-robin sequence over the list (over
\* promo, tip, update for an empty list).
C30_FrequencyPostsInRoundRobin ==
    (/\ gen_out # NoResult
     /\ gen_in.frequency >= 1
     /\ gen_in.tone \in TemplateTones
     /\ Range(PreferredTypes(gen_in)) \subseteq TemplateTypes)
    => LET given == PreferredTypes(gen_in)
           types == IF Len(given) = 0 THEN <<"promo", "tip", "update">> ELSE given
       IN /\ gen_out.kind = "returned"
          /\ DOMAIN gen_out.posts = 1..gen_in.frequency
          /\ \A i \in 1..gen_in.frequency :
                gen_out.posts[i].post_type = types[((i - 1) % Len(types)) + 1]

\* Three posts were returned for the types insight, promo without news: an
\* insight post, a promo post and an insight post again.
C30_Witness ==
    /\ gen_out.kind = "returned"
    /\ gen_in.frequency = 3
    /\ gen_in.industry_news = <<>>
    /\ gen_in.has_post_types
    /\ gen_in.post_types = <<"insight", "promo">>
    /\ Len(gen_out.posts) = 3
    /\ gen_out.posts[3].post_type = "insight"

====
